---- MODULE Spec2Model ----
(***************************************************************************)
(* Model of the Equil (Weitai) USB insulin-pump driver,                    *)
(* lib/drivers/weitai/weiTaiUSB.js: the framed command codec, the          *)
(* settings / serial-number / history retrieval sequence with its          *)
(* reassembly loops, the 28-byte history record decoder and the            *)
(* reconstruction of scheduled-basal segments, bolus episodes and device   *)
(* events.                                                                 *)
(*                                                                         *)
(* Buffers are sequences of bytes (0..255).  JavaScript indices are        *)
(* 0-based; the helpers slice and at take 0-based indices as the code      *)
(* writes them.                                                            *)
(***************************************************************************)
EXTENDS Integers, Sequences, FiniteSets, TLC

(***************************************************************************)
(* Buffer primitives (Node Buffer semantics)                               *)
(***************************************************************************)
Min(a, b) == IF a < b THEN a ELSE b

Max(a, b) == IF a > b THEN a ELSE b

\* buffer[i], 0-based
at(buf, i) == buf[i + 1]

\* Buffer.prototype.slice(start, end): negative indices count from the end,
\* both are clamped to [0, length], an empty range gives the empty buffer.
sliceIndex(len, i) == IF i < 0 THEN Max(len + i, 0) ELSE Min(i, len)

slice(buf, start, end) ==
  LET s == sliceIndex(Len(buf), start)
      e == sliceIndex(Len(buf), end)
  IN  IF e <= s THEN << >> ELSE SubSeq(buf, s + 1, e)

\* Buffer.alloc(n): n zero bytes
alloc(n) == [i \in 1..n |-> 0]

\* bitwise exclusive or of two bytes
RECURSIVE xorBits(_, _, _)
xorBits(a, b, n) ==
  IF n = 0 THEN 0
  ELSE (((a % 2) + (b % 2)) % 2) + 2 * xorBits(a \div 2, b \div 2, n - 1)

xorTable == [a \in 0..15 |-> [b \in 0..15 |-> xorBits(a, b, 4)]]

xor8(a, b) == xorTable[a % 16][b % 16] + 16 * xorTable[a \div 16][b \div 16]

\* writeUInt32LE(v): the four little-endian bytes of v
writeUInt32LE(v) ==
  << v % 256, (v \div 256) % 256, (v \div 65536) % 256, (v \div 16777216) % 256 >>

\* readInt32LE(4) on an 8-byte-or-longer command body: a SIGNED 32-bit read.
\* The top byte is split so that the sum never leaves 32 bits.
readInt32LE(buf, off) ==
  LET b0 == at(buf, off)
      b1 == at(buf, off + 1)
      b2 == at(buf, off + 2)
      b3 == at(buf, off + 3)
      low == b0 + 256 * b1 + 65536 * b2
  IN  IF b3 >= 128 THEN low + 16777216 * (b3 - 256) ELSE low + 16777216 * b3

(***************************************************************************)
(* ./utils (not part of the sources at hand): frame wrapping, CRC-8 and    *)
(* the little-endian integer read, written from the protocol description.  *)
(***************************************************************************)
Marker == 43

\* packFrame(body): the two-byte marker before and after the body
packFrame(body) == << Marker, Marker >> \o body \o << Marker, Marker >>

\* unpackFrame(frame): the frame without its leading and trailing marker
unpackFrame(frame) == slice(frame, 2, Len(frame) - 2)

\* one bit step of the CRC-8 register (polynomial x^8 + x^2 + x + 1)
crcShift(c) == IF c >= 128 THEN xor8((c * 2) % 256, 7) ELSE (c * 2) % 256

crcTable ==
  [b \in 0..255 |->
     crcShift(crcShift(crcShift(crcShift(crcShift(crcShift(crcShift(crcShift(b))))))))]

\* The register after k more zero bytes, for k = 2^j: crcZeros[j][c].  The
\* CRC is linear, so the CRC of a buffer is put together from the CRCs of
\* its two halves; this keeps the evaluation shallow for long buffers.
RECURSIVE crcZeros(_)
crcZeros(j) ==
  IF j = 0 THEN crcTable
  ELSE LET half == crcZeros(j - 1) IN [c \in 0..255 |-> half[half[c]]]

crcZerosTable == [j \in 0..9 |-> crcZeros(j)]

\* the register c after n more zero bytes (bit j of n selects crcZerosTable[j])
RECURSIVE crcAdvance(_, _, _)
crcAdvance(c, n, j) ==
  IF n = 0 THEN c
  ELSE IF n % 2 = 1 THEN crcAdvance(crcZerosTable[j][c], n \div 2, j + 1)
  ELSE crcAdvance(c, n \div 2, j + 1)

\* the CRC of buf[lo..hi] (1-based, inclusive)
RECURSIVE crcRange(_, _, _)
crcRange(buf, lo, hi) ==
  IF lo > hi THEN 0
  ELSE IF lo = hi THEN crcTable[buf[lo]]
  ELSE LET mid == (lo + hi) \div 2
       IN  xor8(crcAdvance(crcRange(buf, lo, mid), hi - mid, 0),
                crcRange(buf, mid + 1, hi))

\* cRC8(bytes): 8-bit CRC of a byte sequence
cRC8(buf) == crcRange(buf, 1, Len(buf))

\* uintFromArrayBuffer(bytes, true): little-endian unsigned value (0 for none)
RECURSIVE uintFromArrayBuffer(_)
uintFromArrayBuffer(buf) ==
  IF buf = << >> THEN 0
  ELSE buf[1] + 256 * uintFromArrayBuffer(Tail(buf))

(***************************************************************************)
(* Content digest.  crypto.createHash('md5') is a library primitive; the   *)
(* model keeps what the driver relies on: a fixed function of the payload  *)
(* bytes, DigestLen bytes long, that changes with the content and with     *)
(* the length of the payload.                                              *)
(***************************************************************************)
DigestLen == 16

md5(payload) ==
  LET c == cRC8(payload)
  IN  [k \in 1..DigestLen |-> (c + k * (Len(payload) + 1)) % 256]

(***************************************************************************)
(* getCommand: the first marker-delimited frame of a buffer                *)
(***************************************************************************)
isMarkerAt(buffer, i) == at(buffer, i) = Marker /\ at(buffer, i + 1) = Marker

\* The for loop of getCommand: begin is the first index with the marker at
\* it; the scan then skips the marker (i++ and the loop's ++i) and end is the
\* second byte of the next marker found from begin + 2 on.
markerIndexes(buffer, from) ==
  { i \in from..(Len(buffer) - 2) : isMarkerAt(buffer, i) }

minOf(S) == CHOOSE x \in S : \A y \in S : x <= y

getCommandBegin(buffer) ==
  IF markerIndexes(buffer, 0) = {} THEN -1 ELSE minOf(markerIndexes(buffer, 0))

getCommandEnd(buffer) ==
  LET begin == getCommandBegin(buffer)
  IN  IF begin < 0 \/ markerIndexes(buffer, begin + 2) = {} THEN -1
      ELSE minOf(markerIndexes(buffer, begin + 2)) + 1

getCommand(buffer) ==
  LET begin == getCommandBegin(buffer)
      end == getCommandEnd(buffer)
  IN  IF begin < 0 \/ end < 0 THEN << >>
      ELSE slice(buffer, begin, end + 1)

(***************************************************************************)
(* Command packets                                                         *)
(***************************************************************************)
FramedHeaderLen == 12

\* the 8-byte command body: port, parameter, operation, checksum slot, length
commandBodyOf(port, parameter, operation, crc, length) ==
  << port, parameter, operation, crc >> \o writeUInt32LE(length)

\* the checksum input: the bytes before the checksum slot, then those after it
crcInput(commandBody) == slice(commandBody, 0, 3) \o slice(commandBody, 4, Len(commandBody))

\* variant: the header declares the payload length without the digest
buildSettingPacket_payloadLength(payload, triplet) ==
  LET data == payload \o md5(payload)
      body0 == commandBodyOf(triplet[1], triplet[2], triplet[3], 0, Len(payload))
      crc8 == cRC8(crcInput(body0))
      body == commandBodyOf(triplet[1], triplet[2], triplet[3], crc8, Len(payload))
  IN  packFrame(body) \o data

\* buildSettingPacket(payload, commandBody), commandBody holding the triplet
buildSettingPacket(payload, triplet) ==
  LET data == payload \o md5(payload)
      body0 == commandBodyOf(triplet[1], triplet[2], triplet[3], 0, Len(data))
      crc8 == cRC8(crcInput(body0))
      body == commandBodyOf(triplet[1], triplet[2], triplet[3], crc8, Len(data))
  IN  packFrame(body) \o data

\* buildPacket(payload): the history request, triplet 5 / 1 / 2
buildPacket(payload) == buildSettingPacket(payload, << 5, 1, 2 >>)

(***************************************************************************)
(* Settings payload decoders.  A result is a record: err (the error handed *)
(* to cb, "none" when cb was not called), ret (what the function returns:  *)
(* "value", "false", or "undefined" for the value of the cb call),         *)
(* payload (the bytes split off before the digest), values (the u16        *)
(* array) and name (the bytes of the name string).                         *)
(***************************************************************************)
NameOffset == 96

Result(err, ret, payload, values, name) ==
  [err |-> err, ret |-> ret, payload |-> payload, values |-> values, name |-> name]

Failure(err) == Result(err, "undefined", << >>, << >>, << >>)

\* the u16 array of payload[from .. to), two bytes a value
u16Array(payload, from, to) ==
  [k \in 1..((to - from + 1) \div 2) |->
     uintFromArrayBuffer(slice(payload, from + 2 * (k - 1), from + 2 * k))]

parseSettingPayload(payload) ==
  IF Len(payload) = 0 THEN Failure("No data")
  ELSE Result("none", "value", payload, u16Array(payload, 0, Len(payload)), << >>)

\* decodeURIComponent of '%' + byte.toString(16) per byte throws a URIError
\* on a one-digit escape (byte < 16) and on a lone byte above 127
nameDecodes(bytes) == \A k \in 1..Len(bytes) : bytes[k] >= 16 /\ bytes[k] < 128

parseSettingAndNamePayload(payload) ==
  IF Len(payload) = 0 THEN Failure("E_READ_FILE")
  ELSE IF ~ nameDecodes(slice(payload, NameOffset, Len(payload)))
       THEN Result("none", "throws", payload, << >>, << >>)
  ELSE Result("none", "value", payload, u16Array(payload, 0, NameOffset),
              slice(payload, NameOffset, Len(payload)))

parseSnPayload(payload) ==
  IF Len(payload) = 0 THEN Failure("E_READ_FILE")
  ELSE Result("none", "value", payload, << >>, payload)

\* the four checks shared by parseSettingPacket and parsePacket, in the
\* order of the code; "ok" when all pass
dataOf(packet, command) ==
  slice(packet, Len(command), Len(command) + readInt32LE(unpackFrame(command), 4))

payloadOf(data) == slice(data, 0, Len(data) - DigestLen)

digestOf(data) == slice(data, Len(data) - DigestLen, Len(data))

crcMatches(command) ==
  LET commandBody == unpackFrame(command)
  IN  at(commandBody, 3) = cRC8(crcInput(commandBody))

lengthCovers(packet, command) ==
  ~ (Len(packet) < Len(command) + readInt32LE(unpackFrame(command), 4))

digestMatches(data) == digestOf(data) = md5(payloadOf(data))

parseSettingPacket(packet, name) ==
  LET command == getCommand(packet)
  IN  IF Len(command) < FramedHeaderLen THEN Failure("Command length check failed")
      ELSE IF ~ crcMatches(command) THEN Failure("CRC-8 check failed")
      ELSE IF ~ lengthCovers(packet, command) THEN Failure("Packet length check failed")
      ELSE IF ~ digestMatches(dataOf(packet, command)) THEN Failure("MD5 check failed")
      ELSE LET payload == payloadOf(dataOf(packet, command))
           IN  IF name = "name" THEN parseSettingAndNamePayload(payload)
               ELSE IF name = "PDASN" THEN parseSnPayload(payload)
               ELSE parseSettingPayload(payload)

(***************************************************************************)
(* Device time.  timeText is the string year-MM-DDTHH:MM:SS; the model     *)
(* keeps it as the tuple of its six numeric fields, whose lexicographic    *)
(* order is the order of the fixed-width strings.  new Date(timeText)      *)
(* .valueOf() is the millisecond value of that local time; the model       *)
(* counts it from 2021-02-15T00:00:00 instead of 1970 so that it fits the  *)
(* checker's 32-bit integers (inputs stay within 24 days of that origin);  *)
(* cfg.lastUpload is counted from the same origin.                         *)
(***************************************************************************)
\* (n + 100).toString().substring(1) for a byte n: its last two digits
twoDigits(n) == (n + 100) % 100

timeTextOf(dateTime) ==
  << at(dateTime, 0) + 2000, twoDigits(at(dateTime, 1)), twoDigits(at(dateTime, 2)),
     twoDigits(at(dateTime, 3)), twoDigits(at(dateTime, 4)), twoDigits(at(dateTime, 5)) >>

\* a.deviceTime < b.deviceTime on strings
RECURSIVE tupleLess(_, _, _)
tupleLess(a, b, i) ==
  IF i > Len(a) THEN FALSE
  ELSE IF a[i] # b[i] THEN a[i] < b[i]
  ELSE tupleLess(a, b, i + 1)

timeTextLess(a, b) == tupleLess(a, b, 1)

\* days from 1970-01-01 to the civil date y-m-d
daysFromCivil(y, m, d) ==
  LET yy == IF m <= 2 THEN y - 1 ELSE y
      era == yy \div 400
      yoe == yy - era * 400
      mp == IF m > 2 THEN m - 3 ELSE m + 9
      doy == ((153 * mp + 2) \div 5) + d - 1
      doe == yoe * 365 + (yoe \div 4) - (yoe \div 100) + doy
  IN  era * 146097 + doe - 719468

originDays == daysFromCivil(2021, 2, 15)

\* new Date(timeText).valueOf(), in ms from the model's origin.  The engine the
\* uploader runs on accepts any day from 01 to 31 in every month and carries the
\* excess into the next month (2021-02-30 is 2021-03-02), as the day count does.
dateValue(t) ==
  (((daysFromCivil(t[1], t[2], t[3]) - originDays) * 86400)
     + t[4] * 3600 + t[5] * 60 + t[6]) * 1000

(***************************************************************************)
(* parsePayload: the 28-byte history records                               *)
(***************************************************************************)
RecordLen == 28

\* the serial the decoder skips: SN == '000000' compares the decoded text
EmptySerial == << 48, 48, 48, 48, 48, 48 >>

\* parseInt(formatString(n.toString(), width, true)): the number back from
\* its padded decimal text
parseIntFormatString(n) == n

emptyInComeRes ==
  [err |-> "none", ret |-> "value", payload |-> << >>,
   BloodGlucoses |-> << >>, BasalRates |-> << >>, BolusRates |-> << >>,
   lastBasals |-> << >>, alarm |-> << >>, status |-> << >>,
   reservoirChanges |-> << >>, primes |-> << >>]

historyFailure(err) == [emptyInComeRes EXCEPT !.err = err, !.ret = "undefined"]

\* the fields of one 28-byte slice
decodeHistory(history) ==
  LET dateTime == slice(history, 10, 16)
      status == slice(history, 16, 22)
      event == slice(history, 22, 28)
  IN  [recordID |-> uintFromArrayBuffer(slice(history, 0, 4)),
       SN |-> slice(history, 4, 10),
       timeText |-> timeTextOf(dateTime),
       basalRate |-> uintFromArrayBuffer(slice(status, 2, 4)),
       bolusRate |-> uintFromArrayBuffer(slice(status, 4, 6)),
       eventIndex |-> uintFromArrayBuffer(slice(event, 0, 2)),
       eventPort |-> at(event, 2),
       eventType |-> at(event, 3),
       eventUrgency |-> at(event, 4)]

eventEntry(h, type) == [index |-> h.eventIndex, type |-> type, deviceTime |-> h.timeText]

\* the alarm pushes with low_insulin pushed whatever the urgency
alarmsOf_anyUrgency(h) ==
  LET p == h.eventPort
      t == h.eventType
      u == h.eventUrgency
  IN  (IF p = 4 /\ t = 1 THEN << eventEntry(h, "low_insulin") >> ELSE << >>)
      \o (IF p = 4 /\ t = 1 /\ u = 2 THEN << eventEntry(h, "no_insulin") >> ELSE << >>)
      \o (IF p = 5 /\ t = 0 /\ u = 1 THEN << eventEntry(h, "low_power") >> ELSE << >>)
      \o (IF p = 5 /\ t = 1 /\ u = 2 THEN << eventEntry(h, "no_power") >> ELSE << >>)
      \o (IF p = 4 /\ t = 6 /\ u = 2 THEN << eventEntry(h, "auto_off") >> ELSE << >>)
      \o (IF p = 4 /\ t = 2 THEN << eventEntry(h, "occlusion") >> ELSE << >>)
      \o (IF p = 4 /\ t = 3 THEN << eventEntry(h, "occlusion") >> ELSE << >>)

\* the alarm pushes of one record, in the order of the ifs
alarmsOf(h) ==
  LET p == h.eventPort
      t == h.eventType
      u == h.eventUrgency
  IN  (IF p = 4 /\ t = 1 /\ u = 1 THEN << eventEntry(h, "low_insulin") >> ELSE << >>)
      \o (IF p = 4 /\ t = 1 /\ u = 2 THEN << eventEntry(h, "no_insulin") >> ELSE << >>)
      \o (IF p = 5 /\ t = 0 /\ u = 1 THEN << eventEntry(h, "low_power") >> ELSE << >>)
      \o (IF p = 5 /\ t = 1 /\ u = 2 THEN << eventEntry(h, "no_power") >> ELSE << >>)
      \o (IF p = 4 /\ t = 6 /\ u = 2 THEN << eventEntry(h, "auto_off") >> ELSE << >>)
      \o (IF p = 4 /\ t = 2 THEN << eventEntry(h, "occlusion") >> ELSE << >>)
      \o (IF p = 4 /\ t = 3 THEN << eventEntry(h, "occlusion") >> ELSE << >>)

statusOf(h) ==
  IF h.eventPort = 4 /\ h.eventType = 5 /\ h.eventUrgency = 0
  THEN << eventEntry(h, "suspend") >> ELSE << >>

reservoirChangesOf(h) ==
  IF h.eventPort = 4 /\ h.eventType = 8
  THEN << eventEntry(h, "reservoirChanges") >> ELSE << >>

primesOf(h) ==
  IF h.eventPort = 4 /\ h.eventType = 7 THEN << eventEntry(h, "prime") >> ELSE << >>

\* the entries pushed to BloodGlucoses, BasalRates / lastBasals, BolusRates
glucoseSample(h) ==
  [deviceTime |-> h.timeText, recordId |-> h.recordID,
   BloodGlucose |-> parseIntFormatString(h.basalRate)]

basalSample(h) ==
  [deviceTime |-> h.timeText, recordId |-> h.recordID,
   BasalRate |-> parseIntFormatString(h.basalRate)]

bolusSample(h) ==
  [deviceTime |-> h.timeText, recordId |-> h.recordID,
   BolusRate |-> parseIntFormatString(h.bolusRate)]

\* the bolus pushes with every zero rate kept
bolusPush_all(BolusRates, h) == Append(BolusRates, bolusSample(h))

\* the bolus pushes of one record: a zero rate is kept only as the first
\* sample or right after a non-zero one
bolusPush(BolusRates, h) ==
  IF parseIntFormatString(h.bolusRate) = 0
  THEN IF Len(BolusRates) > 0 /\ BolusRates[Len(BolusRates)].BolusRate # 0
       THEN Append(BolusRates, bolusSample(h))
       ELSE IF Len(BolusRates) = 0 THEN Append(BolusRates, bolusSample(h))
            ELSE BolusRates
  ELSE Append(BolusRates, bolusSample(h))

\* variant: the serial is tested after the event pushes
recordStep_eventsFirst(res, h, lastUpload) ==
  LET ev == [res EXCEPT !.alarm = @ \o alarmsOf(h),
                        !.status = @ \o statusOf(h),
                        !.reservoirChanges = @ \o reservoirChangesOf(h),
                        !.primes = @ \o primesOf(h)]
  IN  IF h.SN = EmptySerial THEN ev
      ELSE IF dateValue(h.timeText) < lastUpload
           THEN IF h.eventPort # 3
                THEN [ev EXCEPT !.lastBasals = Append(@, basalSample(h))]
                ELSE ev
      ELSE IF h.eventPort = 3 /\ h.eventType = 0
           THEN [ev EXCEPT !.BloodGlucoses = Append(@, glucoseSample(h))]
      ELSE IF h.eventPort = 3 /\ h.eventType = 1 THEN ev
      ELSE LET bas == IF h.eventPort # 3
                      THEN [ev EXCEPT !.BasalRates = Append(@, basalSample(h))]
                      ELSE ev
           IN  [bas EXCEPT !.BolusRates = bolusPush(@, h)]

\* one iteration of the record loop on the decoded record h
recordStep(res, h, lastUpload) ==
  IF h.SN = EmptySerial THEN res
  ELSE LET ev == [res EXCEPT !.alarm = @ \o alarmsOf(h),
                             !.status = @ \o statusOf(h),
                             !.reservoirChanges = @ \o reservoirChangesOf(h),
                             !.primes = @ \o primesOf(h)]
       IN  IF dateValue(h.timeText) < lastUpload
           THEN IF h.eventPort # 3
                THEN [ev EXCEPT !.lastBasals = Append(@, basalSample(h))]
                ELSE ev
           ELSE IF h.eventPort = 3 /\ h.eventType = 0
                THEN [ev EXCEPT !.BloodGlucoses = Append(@, glucoseSample(h))]
           ELSE IF h.eventPort = 3 /\ h.eventType = 1 THEN ev
           ELSE LET bas == IF h.eventPort # 3
                           THEN [ev EXCEPT !.BasalRates = Append(@, basalSample(h))]
                           ELSE ev
                IN  [bas EXCEPT !.BolusRates = bolusPush(@, h)]

RECURSIVE recordLoop(_, _, _, _)
recordLoop(res, payload, i, lastUpload) ==
  IF ~ (i < Len(payload)) THEN res
  ELSE recordLoop(recordStep(res, decodeHistory(slice(payload, i, i + RecordLen)),
                             lastUpload),
                  payload, i + RecordLen, lastUpload)

\* Array.prototype.sort with the comparator a.deviceTime < b.deviceTime ? -1 : 1
\* (insertion of each element after those not later than it)
RECURSIVE insertByDeviceTime(_, _)
insertByDeviceTime(sorted, x) ==
  IF sorted = << >> THEN << x >>
  ELSE IF timeTextLess(x.deviceTime, sorted[Len(sorted)].deviceTime)
       THEN Append(insertByDeviceTime(SubSeq(sorted, 1, Len(sorted) - 1), x),
                   sorted[Len(sorted)])
       ELSE Append(sorted, x)

\* variant: the list is left in the order given
sortByDeviceTime_asGiven(list) == list

RECURSIVE sortByDeviceTime(_)
sortByDeviceTime(list) ==
  IF list = << >> THEN << >>
  ELSE insertByDeviceTime(sortByDeviceTime(SubSeq(list, 1, Len(list) - 1)),
                          list[Len(list)])

\* the carry-forward taking the earliest pre-boundary sample
carryForward_earliest(res) ==
  IF Len(res.lastBasals) > 0
  THEN LET sorted == sortByDeviceTime(res.lastBasals)
       IN  [res EXCEPT !.lastBasals = sorted,
                       !.BasalRates = << sorted[1] >> \o @]
  ELSE res

\* the carry-forward: the latest pre-boundary sample goes to the front
carryForward(res) ==
  IF Len(res.lastBasals) > 0
  THEN LET sorted == sortByDeviceTime(res.lastBasals)
       IN  [res EXCEPT !.lastBasals = sorted,
                       !.BasalRates = << sorted[Len(sorted)] >> \o @]
  ELSE res

\* variant: every unusable length is reported as a read failure
payloadLengthError_readFailure(len) ==
  IF len = 0 \/ len % RecordLen # 0 THEN "E_READ_FILE" ELSE "none"

\* the two length checks ahead of the record loop
payloadLengthError(len) ==
  IF len = 0 THEN "E_READ_FILE"
  ELSE IF len % RecordLen # 0 THEN "Incorrect payload length"
  ELSE "none"

parsePayload(payload, lastUpload) ==
  IF payloadLengthError(Len(payload)) # "none"
  THEN historyFailure(payloadLengthError(Len(payload)))
  ELSE carryForward(recordLoop([emptyInComeRes EXCEPT !.payload = payload],
                                payload, 0, lastUpload))

\* parsePacket(packet, cfg, cb); a frame shorter than 12 bytes returns false
\* and cb is not called
parsePacket(packet, lastUpload) ==
  LET command == getCommand(packet)
  IN  IF Len(command) < FramedHeaderLen
      THEN [emptyInComeRes EXCEPT !.ret = "false"]
      ELSE IF ~ crcMatches(command) THEN historyFailure("CRC8 checksums not matching")
      ELSE IF ~ lengthCovers(packet, command) THEN historyFailure("Incorrect packet length")
      ELSE IF ~ digestMatches(dataOf(packet, command))
           THEN historyFailure("MD5 checksums not matching")
      ELSE parsePayload(payloadOf(dataOf(packet, command)), lastUpload)

(***************************************************************************)
(* What the device and the transport can put on the wire                   *)
(***************************************************************************)
writeUInt16LE(v) == << v % 256, (v \div 256) % 256 >>

\* one 28-byte history record as the pump stores it
deviceRecord(r) ==
  writeUInt32LE(r.recordID) \o r.SN \o r.dateTime
    \o << 90, 50 >> \o writeUInt16LE(r.basalRate) \o writeUInt16LE(r.bolusRate)
    \o writeUInt16LE(r.eventIndex) \o << r.eventPort, r.eventType, r.eventUrgency, 0 >>

PumpSerial == << 49, 50, 51, 52, 53, 54 >>

\* byte i (0-based) of a buffer replaced by f(byte)
flipAt(buf, i) == [buf EXCEPT ![i + 1] = xor8(@, 1)]

dropAt(buf, i) == slice(buf, 0, i) \o slice(buf, i + 1, Len(buf))

DamageKinds == {"crc", "digest", "payload", "truncate", "shortFrame", "noFrame"}

\* a packet as it arrives after one kind of corruption on the way
damaged(buf, kind) ==
  CASE kind = "crc" -> flipAt(buf, 5)
    [] kind = "digest" -> flipAt(buf, Len(buf) - 1)
    [] kind = "payload" -> flipAt(buf, FramedHeaderLen)
    [] kind = "truncate" -> slice(buf, 0, Len(buf) - 1)
    [] kind = "shortFrame" -> dropAt(buf, 9)
    [] kind = "noFrame" -> dropAt(dropAt(buf, 10), 10)
    [] kind = "length" -> flipAt(buf, 6)

canDamage(buf, kind) ==
  CASE kind = "payload" -> Len(buf) > FramedHeaderLen + DigestLen
    [] kind = "digest" -> Len(buf) > FramedHeaderLen
    [] OTHER -> Len(buf) >= FramedHeaderLen

(***************************************************************************)
(* State                                                                   *)
(***************************************************************************)
VARIABLES
  pc,                 \* where the driver is
  hdr,                \* port, parameter, operation of the command body
  payloadIn,          \* payload handed to buildSettingPacket / buildPacket
  packet,             \* the bytes given to the decoder
  damage,             \* the corruptions the packet met on the way
  parsed,             \* what the decoder made of the packet
  lastUpload,         \* cfg.lastUpload
  loopIndex,          \* i of the settings loop of getConfig
  current,            \* this.current
  settingUpload,      \* this.settingUpload, by index into setTypes
  wire,               \* response bytes the device has still to deliver
  respFault,          \* what is wrong with the response in flight
  incomingA,          \* the accumulating buffer of the read loop
  counter,            \* counter / count of the read loop
  commandBodyLength,  \* commandBodyLength of the read loop
  done,               \* done of the read loop
  written,            \* the requests handed to transferOut, in order
  cbCalls,            \* the calls of the completion callback cb, in order
  failure,            \* the exception that ended the retrieval, if any
  pdaSn,              \* the serial number getPdaSn returned
  data,               \* what getConfig put into data
  history,            \* the records the pump holds, oldest first
  fetched,            \* the lists fetchData put into data
  postRecords,        \* data.post_records of processData
  bolusIndex,         \* how many samples the loop of buildBolus has consumed
  itemRes,            \* itemRes of buildBolus
  postRes             \* postRes of buildBolus

codecVars == << hdr, payloadIn, packet, damage, parsed >>

loopVars == << wire, respFault, incomingA, counter, commandBodyLength, done >>

retrievalVars ==
  << loopIndex, current, settingUpload, written, cbCalls, failure, pdaSn, data >>

bolusVars == << bolusIndex, itemRes, postRes >>

uploadVars == << history, fetched, postRecords, bolusVars >>

vars == << pc, codecVars, lastUpload, loopVars, retrievalVars, uploadVars >>

NotParsed == [fn |-> "none", name |-> "", res |-> Failure("none")]

\* this.current = 0, this.settingUpload = {} and no transfer under way
NoFailure == [phase |-> "none", cause |-> "none", current |-> 0, writes |-> 0]

NoEntry == [set |-> FALSE, values |-> << >>, name |-> << >>]

NoData == [set |-> FALSE, incomingA |-> << >>, pdaSn |-> << >>]

LoopIdle ==
  /\ wire = << >>
  /\ respFault = "none"
  /\ incomingA = << >>
  /\ counter = 1
  /\ commandBodyLength = 0
  /\ done = FALSE

RetrievalIdle ==
  /\ LoopIdle
  /\ loopIndex = 0
  /\ current = 0
  /\ settingUpload = [k \in 0..15 |-> NoEntry]
  /\ written = << >>
  /\ cbCalls = << >>
  /\ failure = NoFailure
  /\ pdaSn = << >>
  /\ data = NoData

NotFetched ==
  [set |-> FALSE, defined |-> FALSE, BloodGlucoses |-> << >>, BasalRates |-> << >>,
   BolusRates |-> << >>, reservoirChanges |-> << >>, primes |-> << >>,
   alarm |-> << >>, status |-> << >>]

\* buildBolus has not been entered
BolusIdle ==
  /\ bolusIndex = 0
  /\ itemRes = << >>
  /\ postRes = << >>

UploadIdle ==
  /\ history = << >>
  /\ fetched = NotFetched
  /\ postRecords = << >>
  /\ BolusIdle


(***************************************************************************)
(* Codec: build a packet, let it cross the wire, decode it                 *)
(***************************************************************************)
MaxDamage == 2

CodecPorts == {3, Marker}

CodecParameters == {17, Marker}

CodecOperations == {2}

sampleRecord ==
  deviceRecord([recordID |-> 7, SN |-> PumpSerial, dateTime |-> << 21, 2, 16, 8, 0, 0 >>,
                basalRate |-> 160, bolusRate |-> 0, eventIndex |-> 1,
                eventPort |-> 0, eventType |-> 0, eventUrgency |-> 0])

CodecPayloads ==
  { << >>, << 1, 0, 0, 0 >>, << Marker, Marker >>, sampleRecord, sampleRecord \o << 9 >> }

SettingNames == {"", "name", "PDASN"}

InitCodec ==
  /\ pc = "input"
  /\ hdr \in CodecPorts \X CodecParameters \X CodecOperations
  /\ payloadIn \in CodecPayloads
  /\ packet = << >>
  /\ damage = {}
  /\ parsed = NotParsed
  /\ lastUpload = 0
  /\ RetrievalIdle
  /\ UploadIdle

BuildSettingPacket ==
  /\ pc = "input"
  /\ packet' = buildSettingPacket(payloadIn, hdr)
  /\ pc' = "built"
  /\ UNCHANGED << hdr, payloadIn, damage, parsed, lastUpload, loopVars, retrievalVars,
                  uploadVars >>

BuildPacket ==
  /\ pc = "input"
  /\ hdr' = << 5, 1, 2 >>
  /\ packet' = buildPacket(payloadIn)
  /\ pc' = "built"
  /\ UNCHANGED << payloadIn, damage, parsed, lastUpload, loopVars, retrievalVars,
                  uploadVars >>

Damage ==
  /\ pc = "built"
  /\ Cardinality(damage) < MaxDamage
  /\ \E kind \in DamageKinds \ damage :
       /\ canDamage(packet, kind)
       /\ packet' = damaged(packet, kind)
       /\ damage' = damage \cup {kind}
  /\ UNCHANGED << pc, hdr, payloadIn, parsed, lastUpload, loopVars, retrievalVars,
                  uploadVars >>

ParseSettingPacket ==
  /\ pc = "built"
  /\ \E name \in SettingNames :
       parsed' = [fn |-> "parseSettingPacket", name |-> name,
                  res |-> parseSettingPacket(packet, name)]
  /\ pc' = "parsed"
  /\ UNCHANGED << hdr, payloadIn, packet, damage, lastUpload, loopVars, retrievalVars,
                  uploadVars >>

ParsePacket ==
  /\ pc = "built"
  /\ parsed' = [fn |-> "parsePacket", name |-> "",
                res |-> parsePacket(packet, lastUpload)]
  /\ pc' = "parsed"
  /\ UNCHANGED << hdr, payloadIn, packet, damage, lastUpload, loopVars, retrievalVars,
                  uploadVars >>

NextCodec ==
  \/ BuildSettingPacket
  \/ BuildPacket
  \/ Damage
  \/ ParseSettingPacket
  \/ ParsePacket

SpecCodec == InitCodec /\ [][NextCodec]_vars

(***************************************************************************)
(* getCommand on a buffer read from the device: noise, a marker, a body,   *)
(* a marker, noise                                                         *)
(***************************************************************************)
MaxNoise == 2

MaxBody == 3

\* the marker byte and one other byte
FrameBytes == {Marker, 7}

bytesUpTo(n) == UNION { [1..k -> FrameBytes] : k \in 0..n }

InitFrame ==
  /\ pc = "frame"
  /\ hdr = << 5, 1, 2 >>
  /\ payloadIn \in bytesUpTo(MaxBody)
  /\ \E noise1 \in bytesUpTo(MaxNoise), noise2 \in bytesUpTo(MaxNoise) :
       packet = noise1 \o << Marker, Marker >> \o payloadIn \o << Marker, Marker >> \o noise2
  /\ damage = {}
  /\ parsed = NotParsed
  /\ lastUpload = 0
  /\ RetrievalIdle
  /\ UploadIdle

GetCommand ==
  /\ pc = "frame"
  /\ parsed' = [fn |-> "getCommand", name |-> "", res |-> getCommand(packet)]
  /\ pc' = "framed"
  /\ UNCHANGED << hdr, payloadIn, packet, damage, lastUpload, loopVars, retrievalVars,
                  uploadVars >>

NextFrame == GetCommand

SpecFrame == InitFrame /\ [][NextFrame]_vars

(***************************************************************************)
(* Codec claims                                                            *)
(***************************************************************************)
\* the four integrity checks as each decoder words them
HeaderTooShortErrors == {"Command length check failed"}

ChecksumErrors == {"CRC-8 check failed", "CRC8 checksums not matching"}

LengthErrors == {"Packet length check failed", "Incorrect packet length"}

DigestErrors == {"MD5 check failed", "MD5 checksums not matching"}

IntegrityErrors == HeaderTooShortErrors \cup ChecksumErrors \cup LengthErrors \cup DigestErrors

\* the check a decoder result reports as failed
reportedCheck(res) ==
  IF res.err \in HeaderTooShortErrors THEN "HeaderTooShort"
  ELSE IF res.err \in ChecksumErrors THEN "ChecksumMismatch"
  ELSE IF res.err \in LengthErrors THEN "LengthMismatch"
  ELSE IF res.err \in DigestErrors THEN "DigestMismatch"
  ELSE "none"

\* the first check of the documented order that the packet fails
firstFailingCheck(buf) ==
  LET command == getCommand(buf)
  IN  IF Len(command) < FramedHeaderLen THEN "HeaderTooShort"
      ELSE IF ~ crcMatches(command) THEN "ChecksumMismatch"
      ELSE IF ~ lengthCovers(buf, command) THEN "LengthMismatch"
      ELSE IF ~ digestMatches(dataOf(buf, command)) THEN "DigestMismatch"
      ELSE "none"

\* C1: a packet built by buildSettingPacket / buildPacket and decoded as it
\* was built passes the header-length, checksum, length and digest checks and
\* the decoder recovers exactly the payload bytes, for every header triplet
\* and every payload.
C1_RoundTripEveryHeader ==
  (pc = "parsed" /\ damage = {}) =>
    /\ reportedCheck(parsed.res) = "none"
    /\ parsed.res.ret # "false"
    /\ parsed.res.err = "none" => parsed.res.payload = payloadIn

\* C7: the decoder reports exactly the first failing check of the order
\* header length, checksum, length, digest as its own error, and decodes the
\* payload only when all four pass.
C7_ChecksInOrderEachReported ==
  pc = "parsed" =>
    /\ reportedCheck(parsed.res) = firstFailingCheck(packet)
    /\ parsed.res.ret = "value" => firstFailingCheck(packet) = "none"

(***************************************************************************)
(* Retrieval: getConfigInfo -> getConfig -> 16 x getSetting, getPdaSn,     *)
(* the history request.  One action per await: the code that runs between  *)
(* two suspension points is one step.                                      *)
(***************************************************************************)
NumSettings == 16

\* the request getSetting builds for this.current: selector byte and triplet
settingSelector(cur) ==
  CASE cur = 1 -> 0
    [] cur = 2 -> 2
    [] cur = 3 -> 3
    [] cur = 4 -> 12
    [] cur = 5 -> 10
    [] cur = 6 -> 8
    [] cur = 7 -> 13
    [] cur = 8 -> 3
    [] cur \in 9..15 -> cur - 9
    [] OTHER -> 1

settingTriplet(cur) ==
  CASE cur \in 4..7 -> << 4, 5, 2 >>
    [] cur = 8 -> << 3, 16, 2 >>
    [] cur \in 9..15 -> << 4, 2, 2 >>
    [] OTHER -> << 3, 17, 2 >>

settingRequest(cur) ==
  buildSettingPacket(<< settingSelector(cur), 0, 0, 0 >>, settingTriplet(cur))

pdaSnRequest == buildSettingPacket(alloc(4), << 0, 7, 2 >>)

historyRequest == buildPacket(alloc(0))

\* the decoder variant getSetting picks: the name variant beyond index 8
settingVariant(cur) == IF cur > 8 THEN "name" ELSE ""

\* variant: the index is never advanced
nextCurrent_stuck(cur) == cur

\* variant: the index advances by two
nextCurrent_skip(cur) == cur + 2

\* this.current = this.current + 1
nextCurrent(cur) == cur + 1

\* variant: the loop is left after one read
loopContinues_once(d) == FALSE

\* while (!done)
loopContinues(d) == ~ d

\* variant: the catch block of the settings loop goes on with the pipeline
catchTarget_swallow(phase) ==
  IF phase = "settings" THEN "snWrite"
  ELSE IF phase = "pdaSn" THEN "returned" ELSE "rejected"

\* where an exception thrown in a phase of getConfig ends up: the settings
\* loop and getPdaSn sit in try / catch blocks that call cb and return, the
\* history part does not and the rejection reaches getConfigInfo's catch
catchTarget(phase) == IF phase \in {"settings", "pdaSn"} THEN "returned" ELSE "rejected"

\* variant: the response is declared complete on the second read
readHandler_eager(buf, incomingLen, cnt, cbl) ==
  IF cnt = 1
  THEN LET commandBody == unpackFrame(getCommand(buf))
       IN  IF Len(commandBody) < 8
           THEN [threw |-> TRUE, counter |-> cnt, commandBodyLength |-> cbl, done |-> FALSE]
           ELSE [threw |-> FALSE, counter |-> cnt + 1,
                 commandBodyLength |-> readInt32LE(commandBody, 4), done |-> FALSE]
  ELSE [threw |-> FALSE, counter |-> cnt, commandBodyLength |-> cbl - incomingLen,
        done |-> TRUE]

\* the .then handler of a read loop on the buffer grown by one read of
\* incomingLen bytes; the first read takes the declared length from the frame
\* (readInt32LE throws on a command body shorter than 8 bytes)
readHandler(buf, incomingLen, cnt, cbl) ==
  IF cnt = 1
  THEN LET commandBody == unpackFrame(getCommand(buf))
       IN  IF Len(commandBody) < 8
           THEN [threw |-> TRUE, counter |-> cnt, commandBodyLength |-> cbl, done |-> FALSE]
           ELSE [threw |-> FALSE, counter |-> cnt + 1,
                 commandBodyLength |-> readInt32LE(commandBody, 4), done |-> FALSE]
  ELSE [threw |-> FALSE, counter |-> cnt,
        commandBodyLength |-> cbl - incomingLen,
        done |-> (cbl - incomingLen = 0)]

(***************************************************************************)
(* The pump and the transport                                              *)
(***************************************************************************)
MaxSmallChunk == 2

\* what may happen to a response on the way; "length" changes the declared
\* length by one
RetrievalFaults == {"none", "crc", "digest", "truncate", "length"}

namePayload == alloc(NameOffset) \o << 65 >>

\* what the pump answers to the request for setting cur
settingAnswer(cur) == IF cur > 8 THEN namePayload ELSE << cur + 1, 0 >>

pdaSnAnswer == << 49, 50 >>

historyAnswer == sampleRecord

faulted(buf, fault) == IF fault = "none" THEN buf ELSE damaged(buf, fault)

\* the lengths one transferIn may deliver of what is left on the wire
chunkSizes(remaining) ==
  { n \in 1..remaining :
      n <= MaxSmallChunk \/ n \in {FramedHeaderLen, FramedHeaderLen + 1, remaining} }

(***************************************************************************)
(* Actions                                                                 *)
(***************************************************************************)
InitRetrieval ==
  /\ pc = "idle"
  /\ hdr = << 0, 0, 0 >>
  /\ payloadIn = << >>
  /\ packet = << >>
  /\ damage = {}
  /\ parsed = NotParsed
  /\ lastUpload = 0
  /\ RetrievalIdle
  /\ UploadIdle

callCb(by, err) == [by |-> by, err |-> err]

\* an exception leaves the function under way; the catch block calls cb
thrown(phase, cause, calls) ==
  /\ failure' = [phase |-> phase, cause |-> cause, current |-> current,
                 writes |-> Len(written)]
  /\ pc' = catchTarget(phase)
  /\ cbCalls' = IF catchTarget(phase) = "returned"
                THEN calls \o << callCb("getConfig", "E_READ_FILE") >>
                ELSE calls

\* transferOut resolves: the request is on the wire and the pump answers
transferOut(kind, request, answer) ==
  /\ written' = Append(written, [kind |-> kind, current |-> current, packet |-> request])
  /\ \E fault \in RetrievalFaults :
       /\ respFault' = fault
       /\ wire' = faulted(answer, fault)
  /\ incomingA' = << >>
  /\ counter' = 1
  /\ commandBodyLength' = 0
  /\ done' = FALSE

\* getConfigInfo calls getConfig, which resets this.current and enters the loop
GetConfigInfo ==
  /\ pc = "idle"
  /\ current' = 0
  /\ loopIndex' = 0
  /\ pc' = "settingWrite"
  /\ UNCHANGED << uploadVars, codecVars, lastUpload, loopVars, settingUpload, written, cbCalls,
                  failure, pdaSn, data >>

GetSettingTransferOut ==
  /\ pc = "settingWrite"
  /\ transferOut("setting", settingRequest(current),
                 buildSettingPacket(settingAnswer(current), settingTriplet(current)))
  /\ pc' = "settingRead"
  /\ UNCHANGED << uploadVars, codecVars, lastUpload, loopIndex, current, settingUpload, cbCalls,
                  failure, pdaSn, data >>

\* the cb call a decoder makes when it reports an error
decoderCalls(fn, res) ==
  IF res.err # "none" THEN << callCb(fn, res.err) >> ELSE << >>

\* where getConfig goes on when getSetting has returned: i++ and the loop test
afterGetSetting(i) == IF i + 1 < NumSettings THEN "settingWrite" ELSE "snWrite"

\* one transferIn of the getSetting loop resolves with n bytes
GetSettingTransferIn ==
  /\ pc = "settingRead"
  /\ \E n \in chunkSizes(Len(wire)) :
       LET buf == incomingA \o SubSeq(wire, 1, n)
           h == readHandler(buf, n, counter, commandBodyLength)
           res == parseSettingPacket(buf, settingVariant(current))
       IN  /\ wire' = SubSeq(wire, n + 1, Len(wire))
           /\ incomingA' = buf
           /\ counter' = h.counter
           /\ commandBodyLength' = h.commandBodyLength
           /\ done' = h.done
           /\ IF h.threw
              THEN /\ thrown("settings", "frame", cbCalls)
                   /\ UNCHANGED << loopIndex, current, settingUpload >>
              ELSE IF h.done /\ res.ret # "value"
              THEN \* inComeRes is not an object: the handler throws
                   /\ thrown("settings", "decode",
                             cbCalls \o decoderCalls("parseSettingPacket", res))
                   /\ UNCHANGED << loopIndex, current, settingUpload >>
              ELSE /\ IF h.done
                      THEN /\ settingUpload' =
                                [settingUpload EXCEPT ![current] =
                                   [set |-> TRUE, values |-> res.values, name |-> res.name]]
                           /\ current' = nextCurrent(current)
                      ELSE UNCHANGED << current, settingUpload >>
                   /\ IF loopContinues(h.done)
                      THEN pc' = "settingRead" /\ UNCHANGED loopIndex
                      ELSE pc' = afterGetSetting(loopIndex) /\ loopIndex' = loopIndex + 1
                   /\ UNCHANGED << cbCalls, failure >>
  /\ UNCHANGED << uploadVars, codecVars, lastUpload, respFault, written, pdaSn, data >>

GetPdaSnTransferOut ==
  /\ pc = "snWrite"
  /\ transferOut("pdaSn", pdaSnRequest, buildSettingPacket(pdaSnAnswer, << 0, 7, 2 >>))
  /\ pc' = "snRead"
  /\ UNCHANGED << uploadVars, codecVars, lastUpload, loopIndex, current, settingUpload, cbCalls,
                  failure, pdaSn, data >>

\* one transferIn of the getPdaSn loop; a response that fails to decode makes
\* parseSettingPacket call cb and pdaSn undefined, and getPdaSn still returns
GetPdaSnTransferIn ==
  /\ pc = "snRead"
  /\ \E n \in chunkSizes(Len(wire)) :
       LET buf == incomingA \o SubSeq(wire, 1, n)
           h == readHandler(buf, n, counter, commandBodyLength)
           res == parseSettingPacket(buf, "PDASN")
       IN  /\ wire' = SubSeq(wire, n + 1, Len(wire))
           /\ incomingA' = buf
           /\ counter' = h.counter
           /\ commandBodyLength' = h.commandBodyLength
           /\ done' = h.done
           /\ IF h.threw
              THEN thrown("pdaSn", "frame", cbCalls) /\ UNCHANGED pdaSn
              ELSE /\ IF h.done
                      THEN /\ pdaSn' = res.name
                           /\ cbCalls' = cbCalls \o decoderCalls("parseSettingPacket", res)
                      ELSE UNCHANGED << pdaSn, cbCalls >>
                   /\ pc' = IF loopContinues(h.done) THEN "snRead" ELSE "historyWrite"
                   /\ UNCHANGED failure
  /\ UNCHANGED << uploadVars, codecVars, lastUpload, respFault, loopIndex, current, settingUpload,
                  written, data >>

HistoryTransferOut ==
  /\ pc = "historyWrite"
  /\ transferOut("history", historyRequest, buildPacket(historyAnswer))
  /\ pc' = "historyRead"
  /\ UNCHANGED << uploadVars, codecVars, lastUpload, loopIndex, current, settingUpload, cbCalls,
                  failure, pdaSn, data >>

\* one transferIn of the history loop of getConfig; after the loop
\* cfg.lastUpload = 0 and parsePacket runs on the accumulated buffer
HistoryTransferIn ==
  /\ pc = "historyRead"
  /\ \E n \in chunkSizes(Len(wire)) :
       LET buf == incomingA \o SubSeq(wire, 1, n)
           h == readHandler(buf, n, counter, commandBodyLength)
       IN  /\ wire' = SubSeq(wire, n + 1, Len(wire))
           /\ incomingA' = buf
           /\ counter' = h.counter
           /\ commandBodyLength' = h.commandBodyLength
           /\ done' = h.done
           /\ IF h.threw
              THEN thrown("history", "frame", cbCalls) /\ UNCHANGED lastUpload
              ELSE IF loopContinues(h.done)
              THEN pc' = "historyRead" /\ UNCHANGED << cbCalls, failure, lastUpload >>
              ELSE /\ lastUpload' = 0
                   /\ cbCalls' = cbCalls \o decoderCalls("parsePacket", parsePacket(buf, 0))
                   /\ pc' = "awaitUpload"
                   /\ UNCHANGED failure
  /\ UNCHANGED << uploadVars, codecVars, respFault, loopIndex, current, settingUpload, written,
                  pdaSn, data >>

\* the phase of getConfig a transfer belongs to
phaseOf(where) ==
  CASE where \in {"settingWrite", "settingRead"} -> "settings"
    [] where \in {"snWrite", "snRead"} -> "pdaSn"
    [] OTHER -> "history"

\* the awaited transferOut / transferIn rejects: the device is gone, or no
\* byte arrives before the transfer times out
TransferFails ==
  /\ pc \in {"settingWrite", "settingRead", "snWrite", "snRead",
             "historyWrite", "historyRead"}
  /\ thrown(phaseOf(pc), "transfer", cbCalls)
  /\ UNCHANGED << uploadVars, codecVars, lastUpload, loopVars, loopIndex, current, settingUpload,
                  written, pdaSn, data >>

\* the upload times the platform may answer with (ms from the time origin)
UploadTimes == {0, dateValue(<< 2021, 2, 16, 8, 0, 0 >>)}

\* getMostRecentUploadRecord resolves, getConfig fills data and returns it
GetMostRecentUpload ==
  /\ pc = "awaitUpload"
  /\ \E t \in UploadTimes : lastUpload' = t
  /\ data' = [set |-> TRUE, incomingA |-> incomingA, pdaSn |-> pdaSn]
  /\ pc' = "returned"
  /\ UNCHANGED << uploadVars, codecVars, loopVars, loopIndex, current, settingUpload, written,
                  cbCalls, failure, pdaSn >>

\* getMostRecentUploadRecord rejects: nothing in getConfig catches it
GetMostRecentUploadFails ==
  /\ pc = "awaitUpload"
  /\ thrown("upload", "api", cbCalls)
  /\ UNCHANGED << uploadVars, codecVars, lastUpload, loopVars, loopIndex, current, settingUpload,
                  written, pdaSn, data >>

\* getConfig has returned (with data, or with what cb returned from a catch
\* block): getConfigInfo calls cb(null, data)
GetConfigInfoResume ==
  /\ pc = "returned"
  /\ cbCalls' = Append(cbCalls, callCb("getConfigInfo", "none"))
  /\ pc' = "finished"
  /\ UNCHANGED << uploadVars, codecVars, lastUpload, loopVars, loopIndex, current, settingUpload,
                  written, failure, pdaSn, data >>

\* the rejection reaches the .catch of getConfigInfo: cb(error, null)
GetConfigInfoCatch ==
  /\ pc = "rejected"
  /\ cbCalls' = Append(cbCalls, callCb("getConfigInfo", failure.cause))
  /\ pc' = "finished"
  /\ UNCHANGED << uploadVars, codecVars, lastUpload, loopVars, loopIndex, current, settingUpload,
                  written, failure, pdaSn, data >>

NextRetrieval ==
  \/ GetConfigInfo
  \/ GetSettingTransferOut
  \/ GetSettingTransferIn
  \/ GetPdaSnTransferOut
  \/ GetPdaSnTransferIn
  \/ HistoryTransferOut
  \/ HistoryTransferIn
  \/ TransferFails
  \/ GetMostRecentUpload
  \/ GetMostRecentUploadFails
  \/ GetConfigInfoResume
  \/ GetConfigInfoCatch

SpecRetrieval == InitRetrieval /\ [][NextRetrieval]_vars

(***************************************************************************)
(* Retrieval pipeline: properties                                          *)
(***************************************************************************)
ReadPhases == {"settingRead", "snRead", "historyRead"}

settingWrites == SelectSeq(written, LAMBDA w : w.kind = "setting")

\* C2: a well-formed response is reassembled whatever the chunking: the
\* read handler never throws on it, the loop is still reading only while
\* bytes of the response are yet to come, and it declares the response
\* complete exactly when every byte of it has been received
C2_ReassemblyCompletesEveryChunking ==
  respFault = "none" =>
    /\ failure.cause # "frame"
    /\ pc \in ReadPhases => wire # << >>
    /\ done => wire = << >>

\* C3: the settings requests are written in index order 0, 1, ..., each
\* index once and with the request of its table entry, request i + 1 only
\* when the entries of all earlier indexes have been decoded and stored;
\* once the settings loop has run to its end exactly 16 have been written
C3_SettingsInIndexOrder ==
  /\ Len(settingWrites) <= NumSettings
  /\ \A k \in 1..Len(settingWrites) :
       /\ settingWrites[k].current = k - 1
       /\ settingWrites[k].packet = settingRequest(k - 1)
       /\ \A j \in 0..(k - 2) : settingUpload[j].set
  /\ loopIndex = NumSettings => Len(settingWrites) = NumSettings

C3_Witness ==
  /\ pc = "finished"
  /\ failure = NoFailure
  /\ Len(settingWrites) = NumSettings
  /\ data.set

\* C4: a request is written only when no earlier response is still being
\* reassembled: it is the first request, or the read loop of the request
\* before it has declared its response complete
C4_OneRequestOutstanding ==
  [][Len(written') > Len(written) => (written = << >> \/ done)]_vars

C4_Witness ==
  /\ Len(written) = NumSettings + 2
  /\ pc = "historyRead"
  /\ ~ done

\* C5: when a settings request fails (the transfer fails or times out, or
\* the response does not decode) nothing is written afterwards, neither a
\* settings request of a greater index nor the serial-number or history
\* request, and getConfig ends by reporting E_READ_FILE through cb
C5_SettingsFailureAborts ==
  failure.phase = "settings" =>
    /\ Len(written) = failure.writes
    /\ \A k \in 1..Len(written) :
         written[k].kind = "setting" /\ written[k].current <= failure.current
    /\ pc \in {"returned", "finished"}
    /\ \E k \in 1..Len(cbCalls) : cbCalls[k] = callCb("getConfig", "E_READ_FILE")

C5_Witness ==
  /\ pc = "finished"
  /\ failure.phase = "settings"
  /\ failure.cause = "decode"
  /\ failure.current = 3

(***************************************************************************)
(* fetchData and processData.  Amounts are in thousandths of a unit,       *)
(* rates in the device's raw steps (0.00625 U/h) and times in ms.          *)
(***************************************************************************)
\* data.status: fetchData never assigns it, processData reads undefined
fetchedStatus(inComeRes) == << >>

\* fetchData(progress, data, cb): what parsePacket returned decides whether
\* the property reads throw (undefined), read undefined (false) or copy
fetchData(incomingBuf, boundary) ==
  LET inComeRes == parsePacket(incomingBuf, boundary)
      parserCalls == decoderCalls("parsePacket", inComeRes)
  IN  IF inComeRes.ret = "undefined"
      THEN [threw |-> TRUE, res |-> inComeRes, calls |-> parserCalls, data |-> NotFetched]
      ELSE [threw |-> FALSE, res |-> inComeRes,
            calls |-> Append(parserCalls, callCb("fetchData", "none")),
            data |-> [set |-> TRUE, defined |-> inComeRes.ret = "value",
                      BloodGlucoses |-> inComeRes.BloodGlucoses,
                      BasalRates |-> inComeRes.BasalRates,
                      BolusRates |-> inComeRes.BolusRates,
                      reservoirChanges |-> inComeRes.reservoirChanges,
                      primes |-> inComeRes.primes,
                      alarm |-> inComeRes.alarm,
                      status |-> fetchedStatus(inComeRes)]]

postRecord(type, deviceTime, index, value, extended, duration) ==
  [type |-> type, deviceTime |-> deviceTime, index |-> index, value |-> value,
   extended |-> extended, duration |-> duration, alarmType |-> "", previous |-> << >>]

buildSettings == << postRecord("pumpSettings", << 2020, 2, 28, 10, 0, 0 >>, 0, 0, 0, 0) >>

buildBlood(BloodGlucoses, boundary) ==
  LET kept == SelectSeq(BloodGlucoses, LAMBDA b : ~ (dateValue(b.deviceTime) < boundary))
  IN  [k \in 1..Len(kept) |->
         postRecord("smbg", kept[k].deviceTime, kept[k].recordId, kept[k].BloodGlucose, 0, 0)]

WeekMs == 604800000

\* variant: the gap is taken as it is
currentDur_uncapped(currDu, nextDu) == nextDu - currDu

\* currentDur of buildBasal
currentDur(currDu, nextDu) ==
  IF nextDu - currDu < WeekMs THEN nextDu - currDu ELSE WeekMs - 1

\* buildBasal with every later segment linked to the first one
buildBasal_linkFirst(BasalRates) ==
  LET sorted == sortByDeviceTime(BasalRates)
      segment(i) == postRecord("basal", sorted[i].deviceTime, sorted[i].recordId,
                               sorted[i].BasalRate, 0,
                               currentDur(dateValue(sorted[i].deviceTime),
                                          dateValue(sorted[i + 1].deviceTime)))
  IN  [i \in 1..(Len(sorted) - 1) |->
         IF i > 1 THEN [segment(i) EXCEPT !.previous = << segment(1) >>]
         ELSE segment(i)]

\* buildBasal: every sample but the last becomes a segment that lasts until
\* the next sample; a segment carries the one before it as previous
buildBasal(BasalRates) ==
  LET sorted == sortByDeviceTime(BasalRates)
      segment(i) == postRecord("basal", sorted[i].deviceTime, sorted[i].recordId,
                               sorted[i].BasalRate, 0,
                               currentDur(dateValue(sorted[i].deviceTime),
                                          dateValue(sorted[i + 1].deviceTime)))
  IN  [i \in 1..(Len(sorted) - 1) |->
         IF i > 1 THEN [segment(i) EXCEPT !.previous = << segment(i - 1) >>]
         ELSE segment(i)]

\* basalRes = basalRes.length > 1 ? basalRes : []
keptBasal(basalRes) == IF Len(basalRes) > 1 THEN basalRes ELSE << >>

RECURSIVE sumSeq(_)
sumSeq(q) == IF q = << >> THEN 0 ELSE q[1] + sumSeq(Tail(q))

NormalThreshold == 12800

\* bolus.BolusRate == '0' on the formatted text of the rate
isZeroRate(rate) == rate = 0

\* checkBolus with the threshold rate itself left out of the square runs
checkBolus_belowOnly(blous) ==
  LET square == \E k \in 1..Len(blous) :
                  blous[k].BolusRate > 0 /\ blous[k].BolusRate < NormalThreshold
      normal == \E k \in 1..Len(blous) : blous[k].BolusRate > NormalThreshold
  IN  IF normal /\ square THEN "dulSquare"
      ELSE IF normal THEN "normal"
      ELSE IF square THEN "square"
      ELSE ""

checkBolus(blous) ==
  LET square == \E k \in 1..Len(blous) :
                  blous[k].BolusRate > 0 /\ blous[k].BolusRate <= NormalThreshold
      normal == \E k \in 1..Len(blous) : blous[k].BolusRate > NormalThreshold
  IN  IF normal /\ square THEN "dulSquare"
      ELSE IF normal THEN "normal"
      ELSE IF square THEN "square"
      ELSE ""

\* nextTimeStamp - currTimeStamp of item i: up to the next item, 0 for the last
currDurOf(bolus, i) ==
  IF i < Len(bolus)
  THEN dateValue(bolus[i + 1].deviceTime) - dateValue(bolus[i].deviceTime)
  ELSE 0

\* rate * 0.00625 * seconds / 3600 units, kept as the numerator over 576000
boluMountOf(bolus, i) == bolus[i].BolusRate * (currDurOf(bolus, i) \div 1000)

\* the values of formatDecimal(amount, 2) below 200, in hundredths, that are
\* multiples of 0.025 and whose double product value * 1000 / 25 comes out
\* above the whole number (8.05 * 1000 is 8050.000000000001)
inexactHundredths ==
  { 805, 1610, 1635, 3220, 3245, 3270, 6415, 6440, 6465, 6490, 6515, 6540, 12805,
    12830, 12855, 12880, 12905, 12930, 12955, 12980, 13005, 13030, 13055, 13080, 13105 }

\* buildValue(amount) with formatDecimal(amount, 2): cut to hundredths, then
\* up to the next multiple of 0.025 when res > floorRes; the result in
\* thousandths, for amounts below 200
buildValue(numerator) ==
  LET hundredths == numerator \div 5760
      floorRes == (2 * hundredths) \div 5
  IN  IF (2 * hundredths) % 5 # 0 \/ hundredths \in inexactHundredths
      THEN 25 * floorRes + 25
      ELSE 25 * floorRes

nonZeroItems(bolus) == SelectSeq([i \in 1..Len(bolus) |-> i],
                                 LAMBDA i : ~ isZeroRate(bolus[i].BolusRate))

\* buildBolusNormal with the amount taken over the whole run instead of the
\* gap to the next sample
buildBolusNormal_wholeRun(bolus) ==
  LET items == nonZeroItems(bolus)
      seconds == (dateValue(bolus[Len(bolus)].deviceTime)
                    - dateValue(bolus[items[1]].deviceTime)) \div 1000
  IN  [k \in 1..Len(items) |->
         postRecord("normalBolus", bolus[items[k]].deviceTime, bolus[items[k]].recordId,
                    buildValue(bolus[items[k]].BolusRate * seconds), 0, 0)]

buildBolusNormal(bolus) ==
  LET items == nonZeroItems(bolus)
  IN  [k \in 1..Len(items) |->
         postRecord("normalBolus", bolus[items[k]].deviceTime, bolus[items[k]].recordId,
                    buildValue(boluMountOf(bolus, items[k])), 0, 0)]

\* buildBolusSquare emitting one record for the whole run
buildBolusSquare_single(bolus) ==
  LET items == nonZeroItems(bolus)
  IN  << postRecord("squareBolus", bolus[items[1]].deviceTime, bolus[items[1]].recordId, 0,
                    buildValue(sumSeq([k \in 1..Len(items) |-> boluMountOf(bolus, items[k])])),
                    sumSeq([k \in 1..Len(items) |-> currDurOf(bolus, items[k])])) >>

\* buildBolusSquare with every duration running to the end of the run
buildBolusSquare_toTerminator(bolus) ==
  LET items == nonZeroItems(bolus)
  IN  [k \in 1..Len(items) |->
         postRecord("squareBolus", bolus[items[k]].deviceTime, bolus[items[k]].recordId,
                    0, buildValue(boluMountOf(bolus, items[k])),
                    dateValue(bolus[Len(bolus)].deviceTime)
                      - dateValue(bolus[items[k]].deviceTime))]

buildBolusSquare(bolus) ==
  LET items == nonZeroItems(bolus)
  IN  [k \in 1..Len(items) |->
         postRecord("squareBolus", bolus[items[k]].deviceTime, bolus[items[k]].recordId,
                    0, buildValue(boluMountOf(bolus, items[k])),
                    currDurOf(bolus, items[k]))]

\* variant: the record takes the time and id of the first sample above the threshold
buildBolusDualSquare_first(bolus) ==
  LET isNormal(i) == ~ isZeroRate(bolus[i].BolusRate) /\ bolus[i].BolusRate > NormalThreshold
      isSquare(i) == ~ isZeroRate(bolus[i].BolusRate) /\ bolus[i].BolusRate < NormalThreshold
      normal == sumSeq([i \in 1..Len(bolus) |-> IF isNormal(i) THEN boluMountOf(bolus, i) ELSE 0])
      square == sumSeq([i \in 1..Len(bolus) |-> IF isSquare(i) THEN boluMountOf(bolus, i) ELSE 0])
      dur == sumSeq([i \in 1..Len(bolus) |-> IF isSquare(i) THEN currDurOf(bolus, i) ELSE 0])
      first == CHOOSE j \in 1..Len(bolus) :
                 isNormal(j) /\ \A k \in 1..(j - 1) : ~ isNormal(k)
  IN  << postRecord("dualBolus", bolus[first].deviceTime, bolus[first].recordId,
                    buildValue(normal), buildValue(square), dur) >>

buildBolusDualSquare(bolus) ==
  LET isNormal(i) == ~ isZeroRate(bolus[i].BolusRate) /\ bolus[i].BolusRate > NormalThreshold
      isSquare(i) == ~ isZeroRate(bolus[i].BolusRate) /\ bolus[i].BolusRate < NormalThreshold
      normal == sumSeq([i \in 1..Len(bolus) |-> IF isNormal(i) THEN boluMountOf(bolus, i) ELSE 0])
      square == sumSeq([i \in 1..Len(bolus) |-> IF isSquare(i) THEN boluMountOf(bolus, i) ELSE 0])
      dur == sumSeq([i \in 1..Len(bolus) |-> IF isSquare(i) THEN currDurOf(bolus, i) ELSE 0])
      last == CHOOSE j \in 1..Len(bolus) :
                isNormal(j) /\ \A k \in (j + 1)..Len(bolus) : ~ isNormal(k)
  IN  << postRecord("dualBolus", bolus[last].deviceTime, bolus[last].recordId,
                    buildValue(normal), buildValue(square), dur) >>

bolusOf(items) ==
  CASE checkBolus(items) = "normal" -> buildBolusNormal(items)
    [] checkBolus(items) = "square" -> buildBolusSquare(items)
    [] checkBolus(items) = "dulSquare" -> buildBolusDualSquare(items)
    [] OTHER -> << >>

NoBolus == [itemRes |-> << >>, postRes |-> << >>]

\* the loop body of buildBolus that keeps the items after the episode is out
loopBody_keep(state, bolus) ==
  IF state.itemRes = << >> THEN [state EXCEPT !.itemRes = << bolus >>]
  ELSE IF isZeroRate(bolus.BolusRate)
       THEN [itemRes |-> Append(state.itemRes, bolus),
             postRes |-> state.postRes \o bolusOf(Append(state.itemRes, bolus))]
  ELSE [state EXCEPT !.itemRes = Append(state.itemRes, bolus)]

\* one pass of the loop of buildBolus: items gather until a zero rate closes
\* the episode
loopBody(state, bolus) ==
  IF state.itemRes = << >> THEN [state EXCEPT !.itemRes = << bolus >>]
  ELSE IF isZeroRate(bolus.BolusRate)
       THEN [itemRes |-> << >>,
             postRes |-> state.postRes \o bolusOf(Append(state.itemRes, bolus))]
  ELSE [state EXCEPT !.itemRes = Append(state.itemRes, bolus)]

RECURSIVE buildBolusFrom(_, _, _)
buildBolusFrom(BolusRates, i, state) ==
  IF i > Len(BolusRates) THEN state.postRes
  ELSE buildBolusFrom(BolusRates, i + 1, loopBody(state, BolusRates[i]))

\* buildBolus closing the items left over at the end as an episode
buildBolus_flush(BolusRates) ==
  IF BolusRates = << >> THEN << >>
  ELSE buildBolusFrom(Append(BolusRates,
                             [BolusRates[Len(BolusRates)] EXCEPT !.BolusRate = 0]),
                      1, NoBolus)

buildBolus(BolusRates) == buildBolusFrom(BolusRates, 1, NoBolus)

\* buildAlerm, buildStatus, buildReservoirChange, buildPrime: one record an entry
eventRecords(type, entries) ==
  [k \in 1..Len(entries) |->
     [postRecord(type, entries[k].deviceTime, entries[k].index, 0, 0, 0)
        EXCEPT !.alarmType = entries[k].type]]

buildAlerm(alarmRecords) == eventRecords("alarm", alarmRecords)

buildStatus(status) == eventRecords("suspend", status)

buildReservoirChange(resRecords) == eventRecords("reservoirChange", resRecords)

buildPrime(primeRecords) == eventRecords("prime", primeRecords)

\* processData(progress, data, cb): the lists fetchData left undefined make
\* buildBlood throw; an empty record set ends with E_NO_NEW_RECORDS
processData(lists, boundary) ==
  IF ~ lists.defined THEN [threw |-> TRUE, err |-> "none", post_records |-> << >>]
  ELSE LET post_records == buildBlood(lists.BloodGlucoses, boundary)
                             \o keptBasal(buildBasal(lists.BasalRates))
                             \o buildBolus(lists.BolusRates)
                             \o buildSettings
                             \o buildAlerm(lists.alarm)
                             \o buildStatus(lists.status)
                             \o buildPrime(lists.primes)
                             \o buildReservoirChange(lists.reservoirChanges)
       IN  IF Len(post_records) = 0
           THEN [threw |-> FALSE, err |-> "E_NO_NEW_RECORDS", post_records |-> << >>]
           ELSE [threw |-> FALSE, err |-> "none", post_records |-> post_records]

FetchData ==
  /\ pc = "fetch"
  /\ LET f == fetchData(packet, lastUpload)
     IN  /\ parsed' = [fn |-> "parsePacket", name |-> "", res |-> f.res]
         /\ cbCalls' = cbCalls \o f.calls
         /\ fetched' = f.data
         /\ pc' = IF f.threw THEN "threw" ELSE "process"
  /\ UNCHANGED << hdr, payloadIn, packet, damage, lastUpload, loopVars, loopIndex, current,
                  settingUpload, written, failure, pdaSn, data, history, postRecords,
                  bolusVars >>

ProcessData ==
  /\ pc = "process"
  /\ LET p == processData(fetched, lastUpload)
     IN  /\ postRecords' = p.post_records
         /\ cbCalls' = IF p.threw THEN cbCalls
                       ELSE Append(cbCalls, callCb("processData", p.err))
         /\ pc' = IF p.threw THEN "threw" ELSE "processed"
  /\ UNCHANGED << codecVars, lastUpload, loopVars, loopIndex, current, settingUpload,
                  written, failure, pdaSn, data, history, fetched, bolusVars >>

(***************************************************************************)
(* Histories the pump may hold, and the upload boundary                    *)
(***************************************************************************)
MaxRecords == 2

\* the longest history whose response is corrupted or carries a stray byte
MaxDamagedRecords == 1

RecordKinds ==
  {"basal", "bolus", "glucose", "carb", "lowInsulin", "suspend", "reservoir", "prime",
   "emptySlot"}

\* eventPort, eventType, eventUrgency, basalRate, bolusRate of a kind of record
kindFields(kind) ==
  CASE kind = "bolus" -> << 0, 0, 0, 160, 16000 >>
    [] kind = "glucose" -> << 3, 0, 0, 120, 0 >>
    [] kind = "carb" -> << 3, 1, 0, 0, 30 >>
    [] kind = "port3Other" -> << 3, 2, 0, 0, 30 >>
    [] kind = "lowInsulin" -> << 4, 1, 1, 160, 0 >>
    [] kind = "suspend" -> << 4, 5, 0, 0, 0 >>
    [] kind = "reservoir" -> << 4, 8, 0, 160, 0 >>
    [] kind = "prime" -> << 4, 7, 0, 160, 0 >>
    [] OTHER -> << 0, 0, 0, 160, 0 >>

\* the dateTime bytes of the records: year - 2000, month, day, hour, minute, second
HistoryTimes ==
  { << 21, 2, 16, 7, 0, 0 >>, << 21, 2, 16, 8, 0, 0 >>, << 21, 2, 16, 8, 30, 0 >> }

RecordChoices == [kind : RecordKinds, dateTime : HistoryTimes]

chronological(h) ==
  \A k \in 1..(Len(h) - 1) :
    ~ timeTextLess(timeTextOf(h[k + 1].dateTime), timeTextOf(h[k].dateTime))

Histories ==
  UNION { { h \in [1..n -> RecordChoices] : chronological(h) } : n \in 0..MaxRecords }

\* the 28 bytes of record k of a history
historyRecord(h, k) ==
  LET f == kindFields(h[k].kind)
  IN  deviceRecord([recordID |-> k,
                    SN |-> IF h[k].kind = "emptySlot" THEN EmptySerial ELSE PumpSerial,
                    dateTime |-> h[k].dateTime,
                    basalRate |-> f[4], bolusRate |-> f[5], eventIndex |-> k,
                    eventPort |-> f[1], eventType |-> f[2], eventUrgency |-> f[3]])

RECURSIVE historyBytes(_, _)
historyBytes(h, k) ==
  IF k > Len(h) THEN << >> ELSE historyRecord(h, k) \o historyBytes(h, k + 1)

\* bytes a payload may carry behind its last whole record
StrayBytes == { << >>, << 9 >> }

\* cfg.lastUpload: nothing uploaded yet, or an upload at the second time
Boundaries == {0, dateValue(<< 2021, 2, 16, 8, 0, 0 >>)}

InitHistory ==
  /\ pc = "fetch"
  /\ hdr = << 5, 1, 2 >>
  /\ history \in Histories
  /\ \E stray \in StrayBytes :
       /\ stray # << >> => Len(history) <= MaxDamagedRecords
       /\ payloadIn = historyBytes(history, 1) \o stray
  /\ \E kind \in DamageKinds \cup {"none"} :
       /\ kind # "none" =>
            /\ Len(history) <= MaxDamagedRecords
            /\ Len(payloadIn) % RecordLen = 0
            /\ canDamage(buildPacket(payloadIn), kind)
       /\ damage = IF kind = "none" THEN {} ELSE {kind}
       /\ packet = faulted(buildPacket(payloadIn), kind)
  /\ parsed = NotParsed
  /\ lastUpload \in Boundaries
  /\ RetrievalIdle
  /\ fetched = NotFetched
  /\ postRecords = << >>
  /\ BolusIdle

NextHistory ==
  \/ FetchData
  \/ ProcessData

SpecHistory == InitHistory /\ [][NextHistory]_vars

(***************************************************************************)
(* Histories with empty slots: every kind of record under the pump's       *)
(* serial, under the serial '000000' of an empty slot and under six zero   *)
(* bytes                                                                   *)
(***************************************************************************)
MaxSlotRecords == 2

NulSerial == << 0, 0, 0, 0, 0, 0 >>

SlotKinds == {"basal", "bolus", "glucose", "lowInsulin", "suspend", "reservoir", "prime"}

\* one time before the upload boundary, one after it
SlotTimes == { << 21, 2, 16, 7, 0, 0 >>, << 21, 2, 16, 8, 30, 0 >> }

\* every kind at both times as a record of the pump and as an empty slot; a
\* glucose and a prime record after the boundary with six zero bytes as serial
SlotChoices ==
  [kind : SlotKinds, dateTime : SlotTimes, serial : {PumpSerial, EmptySerial}]
    \cup [kind : {"glucose", "prime"}, dateTime : { << 21, 2, 16, 8, 30, 0 >> },
          serial : {NulSerial}]

SlotHistories ==
  UNION { { h \in [1..n -> SlotChoices] : chronological(h) } : n \in 0..MaxSlotRecords }

\* the 28 bytes of record k of a history with empty slots
slotRecord(h, k) ==
  LET f == kindFields(h[k].kind)
  IN  deviceRecord([recordID |-> k, SN |-> h[k].serial, dateTime |-> h[k].dateTime,
                    basalRate |-> f[4], bolusRate |-> f[5], eventIndex |-> k,
                    eventPort |-> f[1], eventType |-> f[2], eventUrgency |-> f[3]])

RECURSIVE slotBytes(_, _)
slotBytes(h, k) == IF k > Len(h) THEN << >> ELSE slotRecord(h, k) \o slotBytes(h, k + 1)

InitSlots ==
  /\ pc = "fetch"
  /\ hdr = << 5, 1, 2 >>
  /\ history \in SlotHistories
  /\ payloadIn = slotBytes(history, 1)
  /\ damage = {}
  /\ packet = buildPacket(payloadIn)
  /\ parsed = NotParsed
  /\ lastUpload = dateValue(<< 2021, 2, 16, 8, 0, 0 >>)
  /\ RetrievalIdle
  /\ fetched = NotFetched
  /\ postRecords = << >>
  /\ BolusIdle

NextSlots ==
  \/ FetchData
  \/ ProcessData

SpecSlots == InitSlots /\ [][NextSlots]_vars

(***************************************************************************)
(* Histories around the upload boundary, in any order: basal and glucose   *)
(* records at two times before the boundary, at the boundary and after it, *)
(* and a suspend record before it                                          *)
(***************************************************************************)
MaxCarryRecords == 3

\* 2021-02-30 is read as 2021-03-02, one day after 2021-03-01
CarryTimes ==
  { << 21, 2, 30, 0, 0, 0 >>, << 21, 3, 1, 0, 0, 0 >>, << 21, 3, 6, 0, 0, 0 >>,
    << 21, 3, 7, 0, 0, 0 >> }

CarryChoices ==
  [kind : {"basal", "glucose"}, dateTime : CarryTimes, serial : {PumpSerial}]
    \cup [kind : {"suspend"}, dateTime : { << 21, 3, 1, 0, 0, 0 >> }, serial : {PumpSerial}]

CarryHistories == UNION { [1..n -> CarryChoices] : n \in 0..MaxCarryRecords }

InitCarry ==
  /\ pc = "fetch"
  /\ hdr = << 5, 1, 2 >>
  /\ history \in CarryHistories
  /\ payloadIn = slotBytes(history, 1)
  /\ damage = {}
  /\ packet = buildPacket(payloadIn)
  /\ parsed = NotParsed
  /\ lastUpload = dateValue(<< 2021, 3, 6, 0, 0, 0 >>)
  /\ RetrievalIdle
  /\ fetched = NotFetched
  /\ postRecords = << >>
  /\ BolusIdle

NextCarry ==
  \/ FetchData
  \/ ProcessData

SpecCarry == InitCarry /\ [][NextCarry]_vars

(***************************************************************************)
(* Histories with records of port 3: glucose (type 0), carbohydrate        *)
(* (type 1) and type 2, among basal and bolus records, before and after    *)
(* the upload boundary                                                     *)
(***************************************************************************)
MaxPort3Records == 2

Port3Kinds == {"glucose", "carb", "port3Other", "basal", "bolus"}

Port3Times == { << 21, 2, 16, 7, 0, 0 >>, << 21, 2, 16, 8, 30, 0 >>, << 21, 2, 16, 9, 0, 0 >> }

Port3Choices == [kind : Port3Kinds, dateTime : Port3Times, serial : {PumpSerial}]

Port3Histories ==
  UNION { { h \in [1..n -> Port3Choices] : chronological(h) } : n \in 0..MaxPort3Records }

InitPort3 ==
  /\ pc = "fetch"
  /\ hdr = << 5, 1, 2 >>
  /\ history \in Port3Histories
  /\ payloadIn = slotBytes(history, 1)
  /\ damage = {}
  /\ packet = buildPacket(payloadIn)
  /\ parsed = NotParsed
  /\ lastUpload = dateValue(<< 2021, 2, 16, 8, 0, 0 >>)
  /\ RetrievalIdle
  /\ fetched = NotFetched
  /\ postRecords = << >>
  /\ BolusIdle

NextPort3 ==
  \/ FetchData
  \/ ProcessData

SpecPort3 == InitPort3 /\ [][NextPort3]_vars

(***************************************************************************)
(* One record of the pump with any event: every port, type and urgency up  *)
(* to the bounds, before and after the upload boundary                     *)
(***************************************************************************)
MaxEventPort == 5

MaxEventType == 9

MaxEventUrgency == 3

EventChoices ==
  [port : 0..MaxEventPort, type : 0..MaxEventType, urgency : 0..MaxEventUrgency,
   dateTime : SlotTimes, serial : {PumpSerial}]

\* the 28 bytes of record k of a history of event records
eventRecord(h, k) ==
  deviceRecord([recordID |-> k, SN |-> h[k].serial, dateTime |-> h[k].dateTime,
                basalRate |-> 160, bolusRate |-> 0, eventIndex |-> k,
                eventPort |-> h[k].port, eventType |-> h[k].type,
                eventUrgency |-> h[k].urgency])

InitEvents ==
  /\ pc = "fetch"
  /\ hdr = << 5, 1, 2 >>
  /\ \E e \in EventChoices : history = << e >>
  /\ payloadIn = eventRecord(history, 1)
  /\ damage = {}
  /\ packet = buildPacket(payloadIn)
  /\ parsed = NotParsed
  /\ lastUpload = dateValue(<< 2021, 2, 16, 8, 0, 0 >>)
  /\ RetrievalIdle
  /\ fetched = NotFetched
  /\ postRecords = << >>
  /\ BolusIdle

NextEvents ==
  \/ FetchData
  \/ ProcessData

SpecEvents == InitEvents /\ [][NextEvents]_vars

(***************************************************************************)
(* parsePayload on histories of basal records (bolus rate 0), bolus        *)
(* records and glucose records, a minute apart                             *)
(***************************************************************************)
MaxFilterRecords == 4

FilterKinds == {"basal", "bolus", "glucose"}

FilterHistories ==
  UNION { [1..n -> FilterKinds] : n \in 0..MaxFilterRecords }

filterRecord(kinds, k) ==
  [kind |-> kinds[k], dateTime |-> << 21, 2, 16, 8, k, 0 >>, serial |-> PumpSerial]

InitFilter ==
  /\ pc = "payload"
  /\ hdr = << 5, 1, 2 >>
  /\ \E kinds \in FilterHistories :
       history = [k \in 1..Len(kinds) |-> filterRecord(kinds, k)]
  /\ payloadIn = slotBytes(history, 1)
  /\ damage = {}
  /\ packet = << >>
  /\ parsed = NotParsed
  /\ lastUpload = 0
  /\ RetrievalIdle
  /\ fetched = NotFetched
  /\ postRecords = << >>
  /\ BolusIdle

\* parsePayload(payload, cfg, cb)
ParsePayload ==
  /\ pc = "payload"
  /\ parsed' = [fn |-> "parsePayload", name |-> "", res |-> parsePayload(payloadIn, lastUpload)]
  /\ cbCalls' = cbCalls \o decoderCalls("parsePayload", parsed'.res)
  /\ pc' = "parsed"
  /\ UNCHANGED << hdr, payloadIn, packet, damage, lastUpload, loopVars, loopIndex, current,
                  settingUpload, written, failure, pdaSn, data, uploadVars >>

NextFilter == ParsePayload

SpecFilter == InitFilter /\ [][NextFilter]_vars

(***************************************************************************)
(* Basal samples handed to processData                                     *)
(***************************************************************************)
\* sample times: one second apart, a week less a second, a week, more than a week
BasalTimes ==
  << << 2021, 2, 16, 0, 0, 0 >>, << 2021, 2, 16, 0, 0, 1 >>, << 2021, 2, 23, 0, 0, 0 >>,
     << 2021, 2, 23, 0, 0, 1 >>, << 2021, 3, 6, 0, 0, 0 >> >>

\* a sample time carries no sample, or one with the given rate
BasalChoices == { << >>, << 0 >>, << 160 >> }

\* the samples a choice of rates gives, oldest first
basalSamplesOf(choice) ==
  LET taken == SelectSeq([i \in 1..Len(BasalTimes) |-> i], LAMBDA i : choice[i] # << >>)
  IN  [k \in 1..Len(taken) |->
         [deviceTime |-> BasalTimes[taken[k]], recordId |-> taken[k],
          BasalRate |-> choice[taken[k]][1]]]

GlucoseChoices ==
  { << >>, << [deviceTime |-> BasalTimes[2], recordId |-> 9, BloodGlucose |-> 120] >> }

InitBasal ==
  /\ pc = "process"
  /\ hdr = << 5, 1, 2 >>
  /\ payloadIn = << >>
  /\ packet = << >>
  /\ damage = {}
  /\ parsed = NotParsed
  /\ lastUpload = 0
  /\ RetrievalIdle
  /\ history = << >>
  /\ \E choice \in [1..Len(BasalTimes) -> BasalChoices], glucoses \in GlucoseChoices :
       fetched = [NotFetched EXCEPT !.set = TRUE, !.defined = TRUE,
                                    !.BasalRates = basalSamplesOf(choice),
                                    !.BloodGlucoses = glucoses]
  /\ postRecords = << >>
  /\ BolusIdle

NextBasal == ProcessData

SpecBasal == InitBasal /\ [][NextBasal]_vars

(***************************************************************************)
(* Basal samples handed to processData in any order                        *)
(***************************************************************************)
MaxSamples == 3

\* sample times: a date, a day no calendar has (the decoder copies the day byte
\* into timeText unchecked), the day after it in text order, and a later date
OrderTimes ==
  { << 2021, 2, 16, 0, 0, 0 >>, << 2021, 2, 30, 0, 0, 0 >>, << 2021, 3, 1, 0, 0, 0 >>,
    << 2021, 3, 6, 0, 0, 0 >> }

SampleOrders == UNION { [1..n -> OrderTimes] : n \in 0..MaxSamples }

basalSamplesIn(order) ==
  [k \in 1..Len(order) |-> [deviceTime |-> order[k], recordId |-> k, BasalRate |-> 160]]

InitBasalOrder ==
  /\ pc = "process"
  /\ hdr = << 5, 1, 2 >>
  /\ payloadIn = << >>
  /\ packet = << >>
  /\ damage = {}
  /\ parsed = NotParsed
  /\ lastUpload = 0
  /\ RetrievalIdle
  /\ history = << >>
  /\ \E order \in SampleOrders :
       fetched = [NotFetched EXCEPT !.set = TRUE, !.defined = TRUE,
                                    !.BasalRates = basalSamplesIn(order)]
  /\ postRecords = << >>
  /\ BolusIdle

NextBasalOrder == ProcessData

SpecBasalOrder == InitBasalOrder /\ [][NextBasalOrder]_vars

(***************************************************************************)
(* Bolus samples handed to processData                                     *)
(***************************************************************************)
MaxBolusSamples == 4

\* raw rates: none, two below the threshold, the threshold itself, one above
BolusRateChoices == {0, 500, 3000, 12800, 20000}

\* the k-th sample time; the gaps to the next sample grow: 181 s, 301 s, 421 s, ...
bolusTime(k) == << 2021, 2, 16, 8, k * k, k >>

\* the lists the decoder can leave: it keeps a zero rate only as the first
\* sample or right after a non-zero one, so no two zero rates are adjacent
BolusLists ==
  { q \in UNION { [1..n -> BolusRateChoices] : n \in 0..MaxBolusSamples } :
      \A k \in 1..(Len(q) - 1) : ~ (q[k] = 0 /\ q[k + 1] = 0) }

bolusSamplesOf(q) ==
  [k \in 1..Len(q) |-> [deviceTime |-> bolusTime(k), recordId |-> k, BolusRate |-> q[k]]]

InitBolus ==
  /\ pc = "process"
  /\ hdr = << 5, 1, 2 >>
  /\ payloadIn = << >>
  /\ packet = << >>
  /\ damage = {}
  /\ parsed = NotParsed
  /\ lastUpload = 0
  /\ RetrievalIdle
  /\ history = << >>
  /\ \E q \in BolusLists :
       fetched = [NotFetched EXCEPT !.set = TRUE, !.defined = TRUE,
                                    !.BolusRates = bolusSamplesOf(q)]
  /\ postRecords = << >>
  /\ BolusIdle

NextBolus == ProcessData

SpecBolus == InitBolus /\ [][NextBolus]_vars

(***************************************************************************)
(* The loop of buildBolus, one sample a step                               *)
(***************************************************************************)
InitBolusLoop ==
  /\ pc = "buildBolus"
  /\ hdr = << 5, 1, 2 >>
  /\ payloadIn = << >>
  /\ packet = << >>
  /\ damage = {}
  /\ parsed = NotParsed
  /\ lastUpload = 0
  /\ RetrievalIdle
  /\ history = << >>
  /\ \E q \in BolusLists :
       fetched = [NotFetched EXCEPT !.set = TRUE, !.defined = TRUE,
                                    !.BolusRates = bolusSamplesOf(q)]
  /\ postRecords = << >>
  /\ BolusIdle

\* for (let bolus of BolusRates) { ... }
BuildBolusStep ==
  /\ pc = "buildBolus"
  /\ bolusIndex < Len(fetched.BolusRates)
  /\ LET state == loopBody([itemRes |-> itemRes, postRes |-> postRes],
                           fetched.BolusRates[bolusIndex + 1])
     IN  /\ itemRes' = state.itemRes
         /\ postRes' = state.postRes
  /\ bolusIndex' = bolusIndex + 1
  /\ UNCHANGED << pc, codecVars, lastUpload, loopVars, retrievalVars, history, fetched,
                  postRecords >>

\* return postRes
BuildBolusReturn ==
  /\ pc = "buildBolus"
  /\ bolusIndex = Len(fetched.BolusRates)
  /\ pc' = "process"
  /\ UNCHANGED << codecVars, lastUpload, loopVars, retrievalVars, uploadVars >>

NextBolusLoop ==
  \/ BuildBolusStep
  \/ BuildBolusReturn
  \/ ProcessData

SpecBolusLoop == InitBolusLoop /\ [][NextBolusLoop]_vars

(***************************************************************************)
(* Delivered amounts handed to buildValue: one bolus sample and its        *)
(* terminator                                                              *)
(***************************************************************************)
MaxValueSteps == 161

\* step j gives the amount j * 0.00125 (rate 360 j for two seconds) or the
\* amount j * 0.05 (rate 8 j for an hour)
ValueRuns ==
  { << [deviceTime |-> << 2021, 2, 16, 8, 0, 0 >>, recordId |-> 1, BolusRate |-> 360 * j],
       [deviceTime |-> << 2021, 2, 16, 8, 0, 2 >>, recordId |-> 2, BolusRate |-> 0] >> :
      j \in 1..MaxValueSteps }
  \cup
  { << [deviceTime |-> << 2021, 2, 16, 8, 0, 0 >>, recordId |-> 1, BolusRate |-> 8 * j],
       [deviceTime |-> << 2021, 2, 16, 9, 0, 0 >>, recordId |-> 2, BolusRate |-> 0] >> :
      j \in 1..MaxValueSteps }

InitValue ==
  /\ pc = "process"
  /\ hdr = << 5, 1, 2 >>
  /\ payloadIn = << >>
  /\ packet = << >>
  /\ damage = {}
  /\ parsed = NotParsed
  /\ lastUpload = 0
  /\ RetrievalIdle
  /\ history = << >>
  /\ \E run \in ValueRuns :
       fetched = [NotFetched EXCEPT !.set = TRUE, !.defined = TRUE, !.BolusRates = run]
  /\ postRecords = << >>
  /\ BolusIdle

NextValue == ProcessData

SpecValue == InitValue /\ [][NextValue]_vars

(***************************************************************************)
(* History decoding and reconstruction: properties                         *)
(***************************************************************************)
\* the payload the packet carries, as the decoder cuts it out
carriedPayload(buf) == payloadOf(dataOf(buf, getCommand(buf)))

\* the history response fails one of the integrity checks
historyFails(buf) ==
  \/ firstFailingCheck(buf) # "none"
  \/ Len(carriedPayload(buf)) % 28 # 0

reportsFailure(calls) == \E k \in 1..Len(calls) : calls[k].err # "none"

reportsSuccess(calls) == \E k \in 1..Len(calls) : calls[k].err = "none"

noRecordsIn(res) ==
  /\ res.BloodGlucoses = << >>
  /\ res.BasalRates = << >>
  /\ res.BolusRates = << >>
  /\ res.alarm = << >>
  /\ res.status = << >>
  /\ res.reservoirChanges = << >>
  /\ res.primes = << >>

\* C6: when the history response fails an integrity check (framed header
\* shorter than 12 bytes, checksum, declared length, digest, payload length
\* not a multiple of 28), fetchData reports a failure through cb, never
\* reports success, and hands no decoded lists on to processData
C6_IntegrityFailureReported ==
  (pc # "fetch" /\ historyFails(packet)) =>
    /\ reportsFailure(cbCalls)
    /\ ~ reportsSuccess(cbCalls)
    /\ ~ fetched.set

\* C8 as stated: a payload whose length is 0 or not a multiple of 28 fails
\* with 'Incorrect payload length' and no record is decoded
C8_Original ==
  (pc # "fetch" /\ damage = {}
     /\ (Len(payloadIn) = 0 \/ Len(payloadIn) % 28 # 0)) =>
    /\ parsed.res.err = "Incorrect payload length"
    /\ noRecordsIn(parsed.res)

\* C8: a payload whose length is not a multiple of 28 (29 included) fails
\* with 'Incorrect payload length'; the empty payload fails with the
\* distinct error code E_READ_FILE; in both cases the decoder returns
\* nothing and no record is decoded
C8_MisalignedPayloadFails ==
  (pc # "fetch" /\ damage = {}) =>
    /\ Len(payloadIn) % 28 # 0 =>
         /\ parsed.res.err = "Incorrect payload length"
         /\ parsed.res.ret = "undefined"
         /\ noRecordsIn(parsed.res)
    /\ Len(payloadIn) = 0 =>
         /\ parsed.res.err = "E_READ_FILE"
         /\ parsed.res.ret = "undefined"
         /\ noRecordsIn(parsed.res)

C8_Witness ==
  /\ pc = "threw"
  /\ damage = {}
  /\ Len(payloadIn) = 29
  /\ parsed.res.err = "Incorrect payload length"

beforeBoundary(deviceTime) == dateValue(deviceTime) < lastUpload

noneBeforeBoundary(list) == \A k \in 1..Len(list) : ~ beforeBoundary(list[k].deviceTime)

\* C9: a record strictly before the upload boundary leaves nothing in the
\* decoder's glucose, bolus, alarm, status, reservoir-change and prime
\* outputs, and a glucose record exactly at the boundary is decoded
C9_PreBoundaryRecordsDiscarded ==
  (pc # "fetch" /\ parsed.res.ret = "value") =>
    /\ noneBeforeBoundary(parsed.res.BloodGlucoses)
    /\ noneBeforeBoundary(parsed.res.BolusRates)
    /\ noneBeforeBoundary(parsed.res.alarm)
    /\ noneBeforeBoundary(parsed.res.status)
    /\ noneBeforeBoundary(parsed.res.reservoirChanges)
    /\ noneBeforeBoundary(parsed.res.primes)
    /\ \A k \in 1..Len(history) :
         (history[k].kind = "glucose"
            /\ dateValue(timeTextOf(history[k].dateTime)) = lastUpload) =>
           \E g \in 1..Len(parsed.res.BloodGlucoses) :
             parsed.res.BloodGlucoses[g].recordId = k

basalSegments == SelectSeq(postRecords, LAMBDA r : r.type = "basal")

strictlyIncreasing(samples) ==
  \A k \in 1..(Len(samples) - 1) :
    dateValue(samples[k].deviceTime) < dateValue(samples[k + 1].deviceTime)

\* segment i starts at sample i and lasts min(t[i+1] - t[i], 604799999) ms
segmentsFollow(samples) ==
  /\ Len(basalSegments) = Len(samples) - 1
  /\ \A i \in 1..(Len(samples) - 1) :
       /\ basalSegments[i].deviceTime = samples[i].deviceTime
       /\ basalSegments[i].duration =
            Min(dateValue(samples[i + 1].deviceTime) - dateValue(samples[i].deviceTime),
                604799999)

\* C10 as stated: n >= 2 samples give n - 1 segments
C10_Original ==
  (pc = "processed" /\ strictlyIncreasing(fetched.BasalRates)
     /\ Len(fetched.BasalRates) >= 2) =>
    segmentsFollow(fetched.BasalRates)

\* C10: n >= 3 basal samples with strictly increasing times give exactly
\* n - 1 scheduled-basal segments, one for each sample but the last, the
\* i-th lasting min(t[i+1] - t[i], 604799999) ms; n = 2 samples give no
\* segment, the single one being dropped from the record set
C10_SegmentsBetweenSamples ==
  (pc = "processed" /\ strictlyIncreasing(fetched.BasalRates)) =>
    /\ Len(fetched.BasalRates) >= 3 => segmentsFollow(fetched.BasalRates)
    /\ Len(fetched.BasalRates) = 2 => basalSegments = << >>

C10_Witness ==
  /\ pc = "processed"
  /\ Len(fetched.BasalRates) = 4
  /\ Len(basalSegments) = 3
  /\ \E i \in 1..3 : basalSegments[i].duration = 604799999
  /\ \E i \in 1..3 : basalSegments[i].duration = 1000

(***************************************************************************)
(* C11: for any basal samples in any order, every basal segment that is    *)
(* produced has a duration of at least 0 and at most 604799999 ms.         *)
(* Violated: the samples are ordered by their text, the durations are      *)
(* differences of their date values, and the two orders differ on a day    *)
(* the month does not have.                                                *)
(***************************************************************************)
C11_DurationsInRange ==
  pc = "processed" =>
    \A k \in 1..Len(basalSegments) :
      /\ basalSegments[k].duration >= 0
      /\ basalSegments[k].duration <= WeekMs - 1

\* segments were produced from samples given newest first
C11_Witness ==
  /\ pc = "processed"
  /\ Len(basalSegments) = 2
  /\ timeTextLess(fetched.BasalRates[3].deviceTime, fetched.BasalRates[1].deviceTime)

(***************************************************************************)
(* Bolus runs.  A run is the samples from the first one, or from the one   *)
(* after the previous terminator, up to the zero-rate sample that closes   *)
(* it; the records of a run are those that carry the index of one of its   *)
(* samples.                                                                *)
(***************************************************************************)
bolusSamples == fetched.BolusRates

\* the positions of the zero-rate samples that close a run
terminators == { b \in 2..Len(bolusSamples) : bolusSamples[b].BolusRate = 0 }

\* the first position of the run that b closes
runStart(b) ==
  IF \E t \in terminators : t < b
  THEN 1 + CHOOSE t \in terminators : t < b /\ \A u \in terminators : u < b => u <= t
  ELSE 1

runPositions(b) == runStart(b)..b

normalBearing(b) ==
  \E k \in runPositions(b) : bolusSamples[k].BolusRate > 12800

squareBearing(b) ==
  \E k \in runPositions(b) :
    bolusSamples[k].BolusRate > 0 /\ bolusSamples[k].BolusRate <= 12800

BolusTypes == {"normalBolus", "squareBolus", "dualBolus"}

\* the bolus records of the run that b closes
runRecords(b) ==
  SelectSeq(postRecords, LAMBDA r : r.type \in BolusTypes /\ r.index \in runPositions(b))

runKinds(b) == { runRecords(b)[k].type : k \in 1..Len(runRecords(b)) }

(***************************************************************************)
(* C12: a terminated bolus run yields dual-square records, and only those, *)
(* iff it has a sample above 12800 and one in 1..12800; normal records     *)
(* only iff it has one above and none in 1..12800; square records only iff *)
(* it has one in 1..12800 and none above; and no record when every sample  *)
(* is zero.                                                                *)
(***************************************************************************)
C12_RunClassifiedByThreshold ==
  pc = "processed" =>
    \A b \in terminators :
      runKinds(b) = IF normalBearing(b) /\ squareBearing(b) THEN {"dualBolus"}
                    ELSE IF normalBearing(b) THEN {"normalBolus"}
                    ELSE IF squareBearing(b) THEN {"squareBolus"}
                    ELSE {}

\* a list with a square run at the threshold rate and a normal run
C12_Witness ==
  /\ pc = "processed"
  /\ \E b \in terminators :
       /\ runKinds(b) = {"squareBolus"}
       /\ \A k \in runPositions(b) : bolusSamples[k].BolusRate \in {0, 12800}
  /\ \E b \in terminators : runKinds(b) = {"normalBolus"}

\* the time from sample k to the next sample, in ms
gapAfter(k) ==
  dateValue(bolusSamples[k + 1].deviceTime) - dateValue(bolusSamples[k].deviceTime)

\* rate * 0.00625 * seconds / 3600 for sample k, as the numerator over 576000
amountOf(k) == bolusSamples[k].BolusRate * (gapAfter(k) \div 1000)

aboveThreshold(k) == bolusSamples[k].BolusRate > 12800

uptoThreshold(k) == bolusSamples[k].BolusRate > 0 /\ bolusSamples[k].BolusRate <= 12800

\* the sum of f over the samples of the run that b closes, the terminator left out
runSum(b, f(_), chosen(_)) ==
  sumSeq([k \in 1..(b - 1) |-> IF k >= runStart(b) /\ chosen(k) THEN f(k) ELSE 0])

(***************************************************************************)
(* C13: a run with a sample above 12800 and a sample in 1..12800 yields    *)
(* exactly one dual-square record; its normal component is the quantised   *)
(* sum of the amounts of the samples above 12800, its extended component   *)
(* the quantised sum of the amounts of the samples in 1..12800, and its    *)
(* duration the sum of the gaps after the samples in 1..12800.             *)
(* Violated: a sample with rate 12800 is counted in neither component.     *)
(***************************************************************************)
C13_DualSquareCountsEverySample ==
  pc = "processed" =>
    \A b \in terminators :
      normalBearing(b) /\ squareBearing(b) =>
        /\ Len(runRecords(b)) = 1
        /\ runRecords(b)[1].type = "dualBolus"
        /\ runRecords(b)[1].value = buildValue(runSum(b, amountOf, aboveThreshold))
        /\ runRecords(b)[1].extended = buildValue(runSum(b, amountOf, uptoThreshold))
        /\ runRecords(b)[1].duration = runSum(b, gapAfter, uptoThreshold)

\* the run that b closes has two non-zero samples, both in 1..12800
twoSquareSamples(b) ==
  /\ ~ normalBearing(b)
  /\ Cardinality({ k \in runPositions(b) : uptoThreshold(k) }) = 2

(***************************************************************************)
(* C14 as stated: a terminated run whose two non-zero samples are both in  *)
(* 1..12800 yields a single square record whose duration is the time from  *)
(* the first of them to the terminator.                                    *)
(***************************************************************************)
C14_Original ==
  pc = "processed" =>
    \A b \in terminators :
      twoSquareSamples(b) =>
        /\ Len(runRecords(b)) = 1
        /\ runRecords(b)[1].type = "squareBolus"
        /\ runRecords(b)[1].duration = runSum(b, gapAfter, uptoThreshold)

(***************************************************************************)
(* C14: a terminated run whose two non-zero samples are both in 1..12800   *)
(* yields two square records, one per non-zero sample and in sample order, *)
(* each carrying the index of its sample, the quantised amount of that     *)
(* sample alone and the gap to the next sample as its duration.            *)
(***************************************************************************)
C14_SquarePerSample ==
  pc = "processed" =>
    \A b \in terminators :
      twoSquareSamples(b) =>
        /\ Len(runRecords(b)) = 2
        /\ runRecords(b)[1].index = b - 2
        /\ runRecords(b)[2].index = b - 1
        /\ \A k \in 1..2 :
             LET r == runRecords(b)[k]
             IN  /\ r.type = "squareBolus"
                 /\ r.deviceTime = bolusSamples[r.index].deviceTime
                 /\ r.extended = buildValue(amountOf(r.index))
                 /\ r.duration = gapAfter(r.index)

\* the run 500, 3000, 0 has been reconstructed
C14_Witness ==
  /\ pc = "processed"
  /\ Len(bolusSamples) = 3
  /\ bolusSamples[1].BolusRate = 500
  /\ bolusSamples[2].BolusRate = 3000
  /\ bolusSamples[3].BolusRate = 0
  /\ Len(runRecords(3)) = 2

\* the positions of the non-zero samples of the run that b closes, in order
nonZeroPositions(b) ==
  SelectSeq([k \in 1..b |-> k],
            LAMBDA k : k >= runStart(b) /\ bolusSamples[k].BolusRate # 0)

(***************************************************************************)
(* C15: a run whose non-zero samples are all above 12800 yields exactly    *)
(* one normal record for each non-zero sample, in sample order, and none   *)
(* for a zero-rate sample; each record carries the time of its sample and  *)
(* the amount rate * 0.00625 * (seconds to the next sample) / 3600 as      *)
(* buildValue quantises it.                                                *)
(***************************************************************************)
C15_NormalPerSample ==
  pc = "processed" =>
    \A b \in terminators :
      normalBearing(b) /\ ~ squareBearing(b) =>
        /\ Len(runRecords(b)) = Len(nonZeroPositions(b))
        /\ \A k \in 1..Len(runRecords(b)) :
             LET r == runRecords(b)[k]
             IN  /\ r.type = "normalBolus"
                 /\ r.index = nonZeroPositions(b)[k]
                 /\ r.deviceTime = bolusSamples[r.index].deviceTime
                 /\ r.value = buildValue(amountOf(r.index))

\* the run r, 0 with r above 12800 has yielded its one normal record
C15_Witness ==
  /\ pc = "processed"
  /\ Len(bolusSamples) = 2
  /\ bolusSamples[1].BolusRate = 20000
  /\ Len(runRecords(2)) = 1
  /\ runRecords(2)[1].value > 0

\* the amount a normal record carries as value and a square record as extended
deliveredAmount(r) == IF r.type = "normalBolus" THEN r.value ELSE r.extended

\* the multiple of 0.025 nearest to numerator / 576000, a half step going up,
\* in thousandths
nearestStep(numerator) == 25 * ((numerator + 7200) \div 14400)

(***************************************************************************)
(* C16: the amount a record carries is the multiple of 0.025 nearest to    *)
(* the delivered amount, an exact half step going up.                      *)
(* Violated: the amount is cut to two decimals and then moved up to the    *)
(* next multiple unless it is one, so 0.03 becomes 0.05; and 8.05, a       *)
(* multiple itself, becomes 8.075.                                         *)
(***************************************************************************)
C16_NearestMultiple ==
  pc = "processed" =>
    \A b \in terminators :
      \A k \in 1..Len(runRecords(b)) :
        deliveredAmount(runRecords(b)[k]) = nearestStep(amountOf(runRecords(b)[k].index))

(***************************************************************************)
(* C17: when the history decodes without error and leaves no glucose,      *)
(* basal, bolus, alarm, status, prime or reservoir entry, processData ends *)
(* with E_NO_NEW_RECORDS and hands no record set on.                       *)
(* Violated: the settings record is always part of the record set, so it   *)
(* is never empty.                                                         *)
(***************************************************************************)
C17_NoNewRecordsReported ==
  (pc = "processed" /\ parsed.res.ret = "value" /\ noRecordsIn(parsed.res)) =>
    /\ cbCalls[Len(cbCalls)] = callCb("processData", "E_NO_NEW_RECORDS")
    /\ postRecords = << >>

\* record k of the history is an empty slot
emptySlot(k) == k \in 1..Len(history) /\ history[k].serial = EmptySerial

noSampleOfEmptySlot(list) == \A e \in 1..Len(list) : ~ emptySlot(list[e].recordId)

noEventOfEmptySlot(list) == \A e \in 1..Len(list) : ~ emptySlot(list[e].index)

\* record k left the entry its event stands for
eventDecoded(k) ==
  LET has(list) == \E e \in 1..Len(list) : list[e].index = k
  IN  CASE history[k].kind = "lowInsulin" -> has(parsed.res.alarm)
        [] history[k].kind = "suspend" -> has(parsed.res.status)
        [] history[k].kind = "reservoir" -> has(parsed.res.reservoirChanges)
        [] history[k].kind = "prime" -> has(parsed.res.primes)
        [] OTHER -> TRUE

(***************************************************************************)
(* C18: a record whose serial field is the empty-slot serial '000000'      *)
(* leaves no entry in any output of the decoder (alarm, status, reservoir  *)
(* change, prime, glucose, basal, bolus, carry-forward), whatever its      *)
(* event, rates and time; it is no error, and the records around it, those *)
(* with six zero bytes as serial included, are decoded.                    *)
(***************************************************************************)
C18_EmptySlotSkipped ==
  (pc # "fetch" /\ history # << >>) =>
    /\ parsed.res.ret = "value"
    /\ parsed.res.err = "none"
    /\ noSampleOfEmptySlot(parsed.res.BloodGlucoses)
    /\ noSampleOfEmptySlot(parsed.res.BasalRates)
    /\ noSampleOfEmptySlot(parsed.res.BolusRates)
    /\ noSampleOfEmptySlot(parsed.res.lastBasals)
    /\ noEventOfEmptySlot(parsed.res.alarm)
    /\ noEventOfEmptySlot(parsed.res.status)
    /\ noEventOfEmptySlot(parsed.res.reservoirChanges)
    /\ noEventOfEmptySlot(parsed.res.primes)
    /\ \A k \in 1..Len(history) : ~ emptySlot(k) => eventDecoded(k)

\* an empty slot with an alarm event was passed over and the prime record
\* behind it was decoded
C18_Witness ==
  /\ pc # "fetch"
  /\ Len(history) = 2
  /\ emptySlot(1)
  /\ history[1].kind = "lowInsulin"
  /\ history[2].kind = "prime"
  /\ history[2].serial = NulSerial
  /\ parsed.res.alarm = << >>
  /\ Len(parsed.res.primes) = 1

(***************************************************************************)
(* C19: for a buffer noise1, marker, body, marker, noise2 getCommand       *)
(* returns exactly marker, body, marker, whatever the noise and the body.  *)
(* Violated: the first two adjacent 0x2b bytes of the buffer open the      *)
(* frame and the next two close it, wherever they are.                     *)
(***************************************************************************)
C19_FrameExtractedExactly ==
  pc = "framed" =>
    parsed.res = << Marker, Marker >> \o payloadIn \o << Marker, Marker >>

\* the type of device-event record that a kind of history record stands for
eventTypeOf(kind) ==
  CASE kind = "lowInsulin" -> "alarm"
    [] kind = "suspend" -> "suspend"
    [] kind = "reservoir" -> "reservoirChange"
    [] kind = "prime" -> "prime"
    [] OTHER -> ""

\* the records of the record set that record k of the history resulted in
eventRecordsOf(k) ==
  SelectSeq(postRecords,
            LAMBDA r : r.type = eventTypeOf(history[k].kind) /\ r.index = k)

(***************************************************************************)
(* C20: every record at or after the boundary whose event is an alarm, a   *)
(* suspend (status), a reservoir change or a prime results in exactly one  *)
(* device-event record of that type in the record set of processData.      *)
(* Violated: fetchData does not hand the status list on, so a suspend      *)
(* record results in no record.                                            *)
(***************************************************************************)
C20_OneRecordPerDeviceEvent ==
  (pc = "processed" /\ damage = {}) =>
    \A k \in 1..Len(history) :
      (eventTypeOf(history[k].kind) # ""
         /\ ~ beforeBoundary(timeTextOf(history[k].dateTime))) =>
        Len(eventRecordsOf(k)) = 1

(***************************************************************************)
(* C21: when a transfer fails or times out while a response is being       *)
(* read, the operation stops there: the bytes accumulated so far are not   *)
(* decoded into a settings entry for the item under way (nor into the      *)
(* serial number), getConfig never fills data with the settings map and    *)
(* the history buffer, and a failure has been reported through cb by the   *)
(* time getConfigInfo is done.                                             *)
(***************************************************************************)
C21_FailedReadDiscardsResponse ==
  failure.cause = "transfer" =>
    /\ pc \in {"returned", "rejected", "finished"}
    /\ ~ data.set
    /\ failure.phase = "settings" => ~ settingUpload[failure.current].set
    /\ failure.phase = "pdaSn" => pdaSn = << >>
    /\ pc = "finished" => reportsFailure(cbCalls)

\* a read of the third settings response timed out with part of it received
C21_Witness ==
  /\ pc = "finished"
  /\ failure.cause = "transfer"
  /\ failure.phase = "settings"
  /\ failure.current = 2
  /\ failure.writes = 3
  /\ incomingA # << >>
  /\ wire # << >>

(***************************************************************************)
(* C22: while the bytes accumulated for a response hold no complete frame  *)
(* (getCommand returns the empty frame), the read loop has not failed: it  *)
(* is still reading.                                                       *)
(* Violated: the handler of the first read takes the declared length out   *)
(* of the frame at once and throws on the empty frame.                     *)
(***************************************************************************)
C22_IncompleteFrameReadsOn ==
  (incomingA # << >> /\ getCommand(incomingA) = << >>) =>
    /\ failure = NoFailure
    /\ pc \in ReadPhases

\* the length the framed header at the start of the buffer declares
declaredLength(buf) == readInt32LE(unpackFrame(getCommand(buf)), 4)

(***************************************************************************)
(* C23: whenever a read loop has declared its response complete, which is  *)
(* when the decoder is called, the accumulated buffer starts with the      *)
(* complete framed header and holds at least the declared number of data   *)
(* bytes behind it.                                                        *)
(***************************************************************************)
C23_CompleteBeforeDecoding ==
  done =>
    /\ Len(getCommand(incomingA)) = FramedHeaderLen
    /\ slice(incomingA, 0, FramedHeaderLen) = getCommand(incomingA)
    /\ Len(incomingA) - FramedHeaderLen >= declaredLength(incomingA)

\* the history response was declared complete after more than two reads
C23_Witness ==
  /\ done
  /\ pc = "awaitUpload"
  /\ Len(incomingA) = FramedHeaderLen + declaredLength(incomingA)
  /\ declaredLength(incomingA) > 0

(***************************************************************************)
(* C24: in the loop of buildBolus a non-zero sample is appended to the     *)
(* buffer and neither emits a record nor clears the buffer; records are    *)
(* emitted only by the step that consumes a zero-rate sample while the     *)
(* buffer is non-empty, and that step leaves the buffer empty; what the    *)
(* loop returns is the bolus part of the records processData posts.        *)
(***************************************************************************)
consumed == fetched.BolusRates[bolusIndex']

bolusRecords == SelectSeq(postRecords, LAMBDA r : r.type \in BolusTypes)

C24_EmitOnlyAtTerminator ==
  [][ /\ bolusIndex' = bolusIndex + 1 =>
           /\ consumed.BolusRate # 0 =>
                /\ itemRes' = Append(itemRes, consumed)
                /\ postRes' = postRes
           /\ postRes' # postRes => consumed.BolusRate = 0 /\ itemRes # << >>
           /\ consumed.BolusRate = 0 /\ itemRes # << >> =>
                /\ itemRes' = << >>
                /\ Len(postRes') >= Len(postRes)
                /\ SubSeq(postRes', 1, Len(postRes)) = postRes
      /\ bolusIndex' = bolusIndex => itemRes' = itemRes /\ postRes' = postRes
      /\ pc' = "processed" => bolusRecords' = postRes ]_vars

\* the terminator of the run 500, 3000 has been consumed: two records are
\* out and the buffer is empty, with a further sample still to come
C24_Witness ==
  /\ pc = "buildBolus"
  /\ bolusIndex = 3
  /\ Len(fetched.BolusRates) = 4
  /\ fetched.BolusRates[1].BolusRate = 500
  /\ fetched.BolusRates[2].BolusRate = 3000
  /\ itemRes = << >>
  /\ Len(postRes) = 2

(***************************************************************************)
(* C25: a terminated run whose non-zero samples are all in 1..12800 yields *)
(* exactly one square record for each non-zero sample, in sample order;    *)
(* each record carries the time of its own sample and, as its duration,    *)
(* the whole gap in ms from that sample to the next sample of the run.     *)
(***************************************************************************)
C25_SquareOnePerSample ==
  pc = "processed" =>
    \A b \in terminators :
      squareBearing(b) /\ ~ normalBearing(b) =>
        /\ Len(runRecords(b)) = Len(nonZeroPositions(b))
        /\ \A k \in 1..Len(runRecords(b)) :
             LET r == runRecords(b)[k]
             IN  /\ r.type = "squareBolus"
                 /\ r.index = nonZeroPositions(b)[k]
                 /\ r.deviceTime = bolusSamples[r.index].deviceTime
                 /\ r.duration = gapAfter(r.index)

\* the run 500, 3000, 12800, 0 has yielded its three square records
C25_Witness ==
  /\ pc = "processed"
  /\ Len(bolusSamples) = 4
  /\ bolusSamples[1].BolusRate = 500
  /\ bolusSamples[2].BolusRate = 3000
  /\ bolusSamples[3].BolusRate = 12800
  /\ Len(runRecords(4)) = 3
  /\ runRecords(4)[3].duration = gapAfter(3)

(***************************************************************************)
(* C26: after decoding, the basal sequence holds at most one sample dated  *)
(* strictly before the boundary; when the history has a record before the  *)
(* boundary whose port is not 3, that sample comes from such a record, no  *)
(* such record has a later deviceTime in the order of the comparator, and  *)
(* it is the first of the sequence, with every sample behind it at or      *)
(* after the boundary; without such a record no sample is before the       *)
(* boundary.                                                               *)
(***************************************************************************)
recordTime(k) == timeTextOf(history[k].dateTime)

preBoundaryRecords ==
  { k \in 1..Len(history) :
      beforeBoundary(recordTime(k)) /\ kindFields(history[k].kind)[1] # 3 }

basalSequence == parsed.res.BasalRates

preBoundarySamples ==
  { i \in 1..Len(basalSequence) : beforeBoundary(basalSequence[i].deviceTime) }

C26_OneCarriedSample ==
  (pc # "fetch" /\ history # << >>) =>
    /\ parsed.res.ret = "value"
    /\ Cardinality(preBoundarySamples) <= 1
    /\ preBoundaryRecords = {} => preBoundarySamples = {}
    /\ preBoundaryRecords # {} =>
         /\ preBoundarySamples = {1}
         /\ basalSequence[1].recordId \in preBoundaryRecords
         /\ basalSequence[1].deviceTime = recordTime(basalSequence[1].recordId)
         /\ \A k \in preBoundaryRecords :
              ~ timeTextLess(basalSequence[1].deviceTime, recordTime(k))

\* the later of two basal records before the boundary came first in the
\* history and is carried ahead of the sample at the boundary
C26_Witness ==
  /\ pc = "process"
  /\ Len(history) = 3
  /\ history[1] = [kind |-> "basal", dateTime |-> << 21, 3, 1, 0, 0, 0 >>, serial |-> PumpSerial]
  /\ history[2] = [kind |-> "basal", dateTime |-> << 21, 2, 30, 0, 0, 0 >>, serial |-> PumpSerial]
  /\ history[3].kind = "basal"
  /\ history[3].dateTime = << 21, 3, 6, 0, 0, 0 >>
  /\ Len(basalSequence) = 2
  /\ basalSequence[1].recordId = 1

(***************************************************************************)
(* C27: no scheduled-basal segment among the posted records starts         *)
(* strictly before the upload boundary.                                    *)
(***************************************************************************)
C27_NoSegmentBeforeBoundary ==
  pc = "processed" =>
    \A k \in 1..Len(basalSegments) : ~ beforeBoundary(basalSegments[k].deviceTime)

(***************************************************************************)
(* C28: among the basal segments buildBasal returns, which are in time     *)
(* order, the first carries no previous and every other one carries as     *)
(* previous the segment right before it, without that segment's own        *)
(* previous.                                                               *)
(***************************************************************************)
unlinked(segment) == [segment EXCEPT !.previous = << >>]

C28_LinkedToPreceding ==
  pc = "processed" =>
    \A k \in 1..Len(basalSegments) :
      IF k = 1 THEN basalSegments[k].previous = << >>
      ELSE /\ basalSegments[k].previous = << unlinked(basalSegments[k - 1]) >>
           /\ dateValue(basalSegments[k - 1].deviceTime)
                <= dateValue(basalSegments[k].deviceTime)

\* five samples gave four segments; the third is linked to the second, which
\* has a link of its own
C28_Witness ==
  /\ pc = "processed"
  /\ Len(basalSegments) = 4
  /\ basalSegments[2].previous # << >>
  /\ basalSegments[3].previous = << unlinked(basalSegments[2]) >>
  /\ basalSegments[3].previous # << basalSegments[2] >>

(***************************************************************************)
(* C29: a record at or after the boundary whose event is an alarm, a       *)
(* status, a prime or a reservoir change is decoded as that event only: it *)
(* leaves its event entry and neither a basal nor a bolus sample; the      *)
(* basal and bolus samples all come from records whose port is not 3 and   *)
(* whose event is none of these.                                           *)
(***************************************************************************)
EventKinds == {"lowInsulin", "suspend", "reservoir", "prime"}

sampleOf(list, k) == \E e \in 1..Len(list) : list[e].recordId = k

C29_ClassificationExclusive ==
  pc # "fetch" =>
    \A k \in 1..Len(history) :
      /\ (history[k].kind \in EventKinds /\ ~ emptySlot(k)
            /\ ~ beforeBoundary(recordTime(k))) =>
           /\ eventDecoded(k)
           /\ ~ sampleOf(parsed.res.BasalRates, k)
           /\ ~ sampleOf(parsed.res.BolusRates, k)
      /\ (sampleOf(parsed.res.BasalRates, k) \/ sampleOf(parsed.res.BolusRates, k)) =>
           /\ kindFields(history[k].kind)[1] # 3
           /\ history[k].kind \notin EventKinds

(***************************************************************************)
(* C30: a record of port 3 at or after the boundary leaves a glucose       *)
(* sample when its type is 0 and no glucose sample otherwise, and in       *)
(* either case no basal sample, no bolus sample and no event entry.        *)
(***************************************************************************)
eventOf(list, k) == \E e \in 1..Len(list) : list[e].index = k

C30_Port3GlucoseOrNothing ==
  pc # "fetch" =>
    \A k \in 1..Len(history) :
      (kindFields(history[k].kind)[1] = 3 /\ ~ beforeBoundary(recordTime(k))) =>
        /\ sampleOf(parsed.res.BloodGlucoses, k) <=> kindFields(history[k].kind)[2] = 0
        /\ ~ sampleOf(parsed.res.BasalRates, k)
        /\ ~ sampleOf(parsed.res.BolusRates, k)
        /\ ~ eventOf(parsed.res.alarm, k)
        /\ ~ eventOf(parsed.res.status, k)
        /\ ~ eventOf(parsed.res.reservoirChanges, k)
        /\ ~ eventOf(parsed.res.primes, k)

(***************************************************************************)
(* C31: a record leaves the one event entry its (port, type, urgency) has  *)
(* in the table, in the list of its category, and no other entry in the    *)
(* alarm, status, prime and reservoir-change lists; a triple outside the   *)
(* table leaves none.                                                      *)
(***************************************************************************)
tableRow(p, t, u) ==
  CASE p = 4 /\ t = 1 /\ u = 1 -> << "alarm", "low_insulin" >>
    [] p = 4 /\ t = 1 /\ u = 2 -> << "alarm", "no_insulin" >>
    [] p = 4 /\ t = 5 /\ u = 0 -> << "status", "suspend" >>
    [] p = 4 /\ t = 6 /\ u = 2 -> << "alarm", "auto_off" >>
    [] p = 4 /\ t = 2 -> << "alarm", "occlusion" >>
    [] p = 4 /\ t = 3 -> << "alarm", "occlusion" >>
    [] p = 4 /\ t = 7 -> << "primes", "prime" >>
    [] p = 4 /\ t = 8 -> << "reservoirChanges", "reservoirChanges" >>
    [] p = 5 /\ t = 0 /\ u = 1 -> << "alarm", "low_power" >>
    [] p = 5 /\ t = 1 /\ u = 2 -> << "alarm", "no_power" >>
    [] OTHER -> << >>

eventList(category) ==
  CASE category = "alarm" -> parsed.res.alarm
    [] category = "status" -> parsed.res.status
    [] category = "primes" -> parsed.res.primes
    [] category = "reservoirChanges" -> parsed.res.reservoirChanges

eventCount ==
  Len(parsed.res.alarm) + Len(parsed.res.status) + Len(parsed.res.primes)
    + Len(parsed.res.reservoirChanges)

C31_EventByTable ==
  pc # "fetch" =>
    LET row == tableRow(history[1].port, history[1].type, history[1].urgency)
    IN  /\ parsed.res.ret = "value"
        /\ row = << >> => eventCount = 0
        /\ row # << >> =>
             /\ eventCount = 1
             /\ Len(eventList(row[1])) = 1
             /\ eventList(row[1])[1].type = row[2]
             /\ eventList(row[1])[1].index = 1
             /\ eventList(row[1])[1].deviceTime = recordTime(1)

\* a record (4, 3, 3) after the boundary left its occlusion alarm
C31_Witness ==
  /\ pc = "process"
  /\ history[1].port = 4
  /\ history[1].type = 3
  /\ history[1].urgency = 3
  /\ ~ beforeBoundary(recordTime(1))
  /\ Len(parsed.res.alarm) = 1
  /\ parsed.res.alarm[1].type = "occlusion"

(***************************************************************************)
(* C32: for a packet without a complete marker pair the decoder's outcome  *)
(* differs from its outcome for a complete frame shorter than 12 bytes and *)
(* is none of the checksum, length and digest errors, in                   *)
(* parseSettingPacket and in parsePacket alike.                            *)
(***************************************************************************)
outcome(res) == << res.ret, res.err >>

\* a complete frame of 11 bytes: both marker pairs around a body of 7
shortFrame == << Marker, Marker, 3, 17, 2, 0, 16, 0, 0, Marker, Marker >>

C32_IncompleteFrameDistinct ==
  (pc = "parsed" /\ getCommand(packet) = << >>) =>
    /\ reportedCheck(parsed.res) \notin {"ChecksumMismatch", "LengthMismatch", "DigestMismatch"}
    /\ parsed.fn = "parseSettingPacket" =>
         outcome(parsed.res) # outcome(parseSettingPacket(shortFrame, parsed.name))
    /\ parsed.fn = "parsePacket" =>
         outcome(parsed.res) # outcome(parsePacket(shortFrame, lastUpload))

(***************************************************************************)
(* C33: an entry of the settings map is stored only under an index the     *)
(* enumeration has passed and is the decoded payload of the pump's answer  *)
(* to the request of that index; the index advances by one, and only in    *)
(* the step that stores the entry of the index it leaves, all other        *)
(* entries staying as they are; once the enumeration has run to its end    *)
(* all 16 entries are there.                                               *)
(***************************************************************************)
decodedAnswer(i) ==
  parseSettingPacket(buildSettingPacket(settingAnswer(i), settingTriplet(i)),
                     IF i > 8 THEN "name" ELSE "")

C33_EntryPerIndex ==
  /\ [](/\ \A i \in 0..(NumSettings - 1) : settingUpload[i].set <=> i < current
        /\ loopIndex = NumSettings => current = NumSettings)
  /\ [][ /\ current' # current =>
             /\ current' = current + 1
             /\ settingUpload'[current].set
             /\ settingUpload'[current].values = decodedAnswer(current).values
             /\ settingUpload'[current].name = decodedAnswer(current).name
             /\ \A j \in 0..(NumSettings - 1) :
                  j # current => settingUpload'[j] = settingUpload[j]
         /\ current' = current => settingUpload' = settingUpload ]_vars

\* the enumeration succeeded: the last entry, with its name, is stored
C33_Witness ==
  /\ pc = "finished"
  /\ failure = NoFailure
  /\ current = NumSettings
  /\ settingUpload[NumSettings - 1].set
  /\ settingUpload[NumSettings - 1].name # << >>
  /\ settingUpload[0].values # settingUpload[1].values

(***************************************************************************)
(* C34: one invocation of getConfigInfo calls the completion callback at   *)
(* most once while it runs and exactly once by the time it has finished,   *)
(* on the path of success and on every path of failure.                    *)
(***************************************************************************)
C34_CallbackExactlyOnce ==
  /\ Len(cbCalls) <= 1
  /\ pc = "finished" => Len(cbCalls) = 1

(***************************************************************************)
(* C35: in the bolus samples parsePayload returns no two adjacent samples  *)
(* both have rate zero: a zero-rate sample is the first sample or follows  *)
(* a non-zero one; the non-zero rates of the records are all kept, in      *)
(* order.                                                                  *)
(***************************************************************************)
decodedBolus == parsed.res.BolusRates

bolusRecordIds ==
  SelectSeq([k \in 1..Len(history) |-> k],
            LAMBDA k : kindFields(history[k].kind)[5] # 0
                         /\ ~ (kindFields(history[k].kind)[1] = 3
                                 /\ kindFields(history[k].kind)[2] \in {0, 1}))

C35_NoAdjacentZeroRates ==
  pc = "parsed" =>
    /\ \A i \in 2..Len(decodedBolus) :
         decodedBolus[i].BolusRate = 0 => decodedBolus[i - 1].BolusRate # 0
    /\ SelectSeq([i \in 1..Len(decodedBolus) |-> decodedBolus[i].recordId],
                 LAMBDA k : kindFields(history[k].kind)[5] # 0) = bolusRecordIds

\* of the records bolus, basal, basal, bolus the second zero rate was dropped
C35_Witness ==
  /\ pc = "parsed"
  /\ Len(history) = 4
  /\ history[1].kind = "bolus"
  /\ history[2].kind = "basal"
  /\ history[3].kind = "basal"
  /\ history[4].kind = "bolus"
  /\ Len(decodedBolus) = 3
  /\ decodedBolus[2].BolusRate = 0
  /\ decodedBolus[3].recordId = 4

(***************************************************************************)
(* C36: the non-zero samples behind the last terminator, which no zero     *)
(* rate follows, yield no bolus record, while every terminated run before  *)
(* them yields its records.                                                *)
(***************************************************************************)
trailingSamples ==
  { k \in 1..Len(bolusSamples) :
      bolusSamples[k].BolusRate # 0 /\ \A t \in terminators : t < k }

C36_TrailingRunNotEmitted ==
  pc = "processed" =>
    /\ \A r \in 1..Len(bolusRecords) : bolusRecords[r].index \notin trailingSamples
    /\ \A b \in terminators : runRecords(b) # << >>
    /\ terminators = {} => bolusRecords = << >>

\* the run 500, 0 gave its record and the samples 20000, 3000 behind it none
C36_Witness ==
  /\ pc = "processed"
  /\ Len(bolusSamples) = 4
  /\ bolusSamples[1].BolusRate = 500
  /\ bolusSamples[2].BolusRate = 0
  /\ bolusSamples[3].BolusRate = 20000
  /\ bolusSamples[4].BolusRate = 3000
  /\ Len(bolusRecords) = 1
  /\ bolusRecords[1].index = 1

(***************************************************************************)
(* C37: the amount a record carries is a multiple of 0.025, not below the  *)
(* delivered amount cut to two decimals and less than 0.025 above it, and  *)
(* buildValue leaves it as it is when applied to it again.                 *)
(***************************************************************************)
C37_NextMultipleWithinStep ==
  pc = "processed" =>
    \A b \in terminators :
      \A k \in 1..Len(runRecords(b)) :
        LET carried == deliveredAmount(runRecords(b)[k])
            cut == 10 * (amountOf(runRecords(b)[k].index) \div 5760)
        IN  /\ carried % 25 = 0
            /\ carried >= cut
            /\ carried - cut < 25
            /\ buildValue(576 * carried) = carried

(***************************************************************************)
(* C38: for basal samples with pairwise distinct times, the segments that  *)
(* come of them, with their durations and previous links, are the same for *)
(* every order in which the samples are given.                             *)
(***************************************************************************)
reorderings(n) == { f \in [1..n -> 1..n] : \A i, j \in 1..n : f[i] = f[j] => i = j }

distinctTimes(samples) ==
  \A i, j \in 1..Len(samples) : samples[i].deviceTime = samples[j].deviceTime => i = j

C38_OrderIndependent ==
  (pc = "processed" /\ distinctTimes(fetched.BasalRates)) =>
    \A f \in reorderings(Len(fetched.BasalRates)) :
      keptBasal(buildBasal([k \in 1..Len(fetched.BasalRates) |-> fetched.BasalRates[f[k]]]))
        = basalSegments

\* three samples given latest first gave two linked segments
C38_Witness ==
  /\ pc = "processed"
  /\ Len(fetched.BasalRates) = 3
  /\ fetched.BasalRates[1].deviceTime = << 2021, 3, 6, 0, 0, 0 >>
  /\ fetched.BasalRates[2].deviceTime = << 2021, 3, 1, 0, 0, 0 >>
  /\ fetched.BasalRates[3].deviceTime = << 2021, 2, 16, 0, 0, 0 >>
  /\ Len(basalSegments) = 2
  /\ basalSegments[1].index = 3
  /\ basalSegments[2].previous # << >>

(***************************************************************************)
(* C39: the one dual-square record of a terminated run that has a sample   *)
(* above 12800 and a sample in 1..12800 carries the time and the record id *)
(* of the last sample above 12800 in the run, wherever the samples in      *)
(* 1..12800 lie.                                                           *)
(***************************************************************************)
lastAbove(b) ==
  CHOOSE k \in runPositions(b) :
    aboveThreshold(k) /\ \A j \in runPositions(b) : aboveThreshold(j) => j <= k

dualRecords == SelectSeq(postRecords, LAMBDA r : r.type = "dualBolus")

mixedRuns == { b \in terminators : normalBearing(b) /\ squareBearing(b) }

C39_DualSquareStampedByLastNormal ==
  pc = "processed" =>
    /\ Len(dualRecords) = Cardinality(mixedRuns)
    /\ \A b \in mixedRuns :
         /\ Len(runRecords(b)) = 1
         /\ runRecords(b)[1].index = bolusSamples[lastAbove(b)].recordId
         /\ runRecords(b)[1].deviceTime = bolusSamples[lastAbove(b)].deviceTime

\* two samples above 12800 with a square sample between them
C39_Witness ==
  /\ pc = "processed"
  /\ Len(bolusSamples) = 4
  /\ bolusSamples[1].BolusRate = 20000
  /\ bolusSamples[2].BolusRate = 500
  /\ bolusSamples[3].BolusRate = 20000
  /\ bolusSamples[4].BolusRate = 0
  /\ Len(dualRecords) = 1
  /\ dualRecords[1].index = 3
  /\ dualRecords[1].deviceTime = bolusTime(3)

(***************************************************************************)
(* C40: in every packet built by buildSettingPacket or buildPacket the     *)
(* length field of the header is the payload length plus 16, and the       *)
(* packet is as long as the framed header plus that declared length.       *)
(***************************************************************************)
\* the four length bytes of a built packet: offset 4 of the body, after the
\* two opening markers
headerLengthField(built) == uintFromArrayBuffer(SubSeq(built, 7, 10))

C40_DeclaredLengthIsPayloadPlusDigest ==
  (pc = "built" /\ damage = {}) =>
    /\ headerLengthField(packet) = Len(payloadIn) + 16
    /\ Len(packet) = FramedHeaderLen + headerLengthField(packet)

\* a 29-byte payload under a header whose first two bytes are the marker
C40_Witness ==
  /\ pc = "built"
  /\ damage = {}
  /\ hdr = << Marker, Marker, 2 >>
  /\ Len(payloadIn) = 29
  /\ headerLengthField(packet) = 45
  /\ Len(packet) = 57

====
